---- MODULE Spec2Model ----
(***************************************************************************)
(* Authenticated fetch with single-flight token refresh.                   *)
(*                                                                         *)
(* The model follows src/core/FetchManager.js (class FetchManager) and the *)
(* wrapper useFetchServer (wrapper/useFetchServer.js): every "await" of    *)
(* the source is a position of a request (pc) or of a refresh execution    *)
(* (ops[o].state); the code between two awaits is one atomic action,       *)
(* because JavaScript runs it to completion on the single event-loop       *)
(* thread.  An accessor (getToken, saveToken, getRefreshToken,             *)
(* getRefreshTokenExpiration) reads or writes its storage when it is       *)
(* called, as the default localStorage accessors do, and hands its result  *)
(* back at a later step.  The transport (ofetch) is taken by its           *)
(* interface: it runs onRequest, sends, and on an error status runs        *)
(* onResponseError, whose outcome settles the call.                        *)
(***************************************************************************)
EXTENDS Integers, Sequences, FiniteSets, TLC

(* ---------------------------- bounds ----------------------------------- *)
\* number of calls to fetch made on the client
NReq == 2
\* the wall clock runs from 0 to MaxClock, in units of 500 ms
MaxClock == 2

\* useFetch: instances created, calls of fetchData per instance, the
\* clock in ms, and the cache size limit (100 in the source, scaled down)
NInst == 3
MaxCalls == 3
MaxNow == 3
MAX_CACHE_SIZE == 1
\* Emitter: once wrappers alive at a time, listeners of an event, depth of
\* nested emits; useSSE: the largest maxRetries, the EventSources constructed
MaxOnce == 1
MaxListeners == 2
MaxDepth == 2
MaxRetriesBound == 2
MaxSources == 4
\* useCountdown: the largest expiredUnix, the clock (in s) when useCountdown
\* is called and at the end, the calls of triggerSuccess
MaxExpiredUnix == 4
CallTime == 2
MaxCdNow == 6
MaxSuccess == 2
\* useTypewriter: pending timeouts and invocations of onTypeComplete for one
\* text beyond which the instance is not driven further
MaxTwTimers == 3
MaxCompleteCalls == 2

Reqs == 1..NReq
\* executions of refreshToken: a call reaches queuedRefreshToken at most
\* once, so there are never more executions than calls
Ops == 1..NReq

(* ---------------------------- values ----------------------------------- *)
\* JavaScript null and undefined
NULL == "<null>"
UNDEF == "<undefined>"

\* a value used as a condition: if (token), !refreshToken, a || b
Truthy(v) == v \notin {NULL, UNDEF, ""}

\* a value interpolated into a template literal or stored by
\* localStorage.setItem: undefined becomes the string "undefined"
Str(v) == IF v = UNDEF THEN "undefined" ELSE IF v = NULL THEN "null" ELSE v

\* the Authorization header `Bearer ${token}`; NoHeader when there is none
NoHeader == <<>>
Bearer(t) == <<"Bearer", Str(t)>>

\* access tokens the refresh endpoint may hand out
NewTokens == {"T1", "T2"}
\* what a field of the refresh response may hold (UNDEF: field absent)
FieldVals == NewTokens \cup {UNDEF, ""}
\* refresh response bodies
Bodies == [accessToken : FieldVals, newAccessToken : FieldVals,
           access_token : FieldVals, token : FieldVals]
\* the bodies the refresh endpoint answers with in the client runs: the
\* first and the last field of the extraction vary
RefreshBodies ==
  {b \in Bodies : b.newAccessToken = UNDEF /\ b.access_token = UNDEF}

\* request URLs, as sequences of path segments
OrdersUrl == <<"orders">>
LoginUrl == <<"api", "auth", "login">>
Urls == {OrdersUrl, LoginUrl}
\* constructor options of a client configured with
\* skipRefreshUrls: ['/auth/login']
ConfiguredOptions == [skipRefreshUrls |-> {<<"auth", "login">>}]
\* constructor options that leave skipRefreshUrls out
DefaultOptions == [refreshUrl |-> <<"auth", "refresh">>]
\* constructor: this.skipRefreshUrls = options.skipRefreshUrls || []
ConstructorSkipRefreshUrls(options) ==
  IF "skipRefreshUrls" \in DOMAIN options THEN options.skipRefreshUrls ELSE {}

\* HTTP statuses the transport answers with
Statuses == {200, 401, 500}
\* status of a call that has had no response yet, and of a call whose
\* transport failed without a response (network error, abort)
NoStatus == 0
TransportFailure == 1

\* errors thrown by refreshToken
ErrNoRefreshToken == "No refresh token available"
ErrExpired == "Refresh token expired"
ErrRefreshTransport == "refresh request failed"
ErrAborted == "refresh request aborted"
\* error thrown by saveTokenFn
ErrSaveToken == "saveToken failed"

(* ---------------------------- state ------------------------------------ *)
VARIABLES
  pc,              \* position of each fetch call
  url,             \* request of each call
  hdr,             \* options.headers.Authorization of each call
  isRetry,         \* options._isRetry of each call
  acc,             \* value a pending accessor call of the request returns
  joined,          \* refresh execution whose promise the call awaits (0: none)
  newToken,        \* what the refresh wait of the call resolved to
  outcome,         \* outcome of the refresh wait as the call observed it
  result,          \* how the call settled
  status,          \* status of the last response to the call
  aborted,         \* the abort signal of the call has fired
  sendCount,       \* transport invocations made for the call
  saved,           \* tokens the call passed to saveToken, in order
  retryHdr,        \* Authorization header the retry was sent with
  inFlightAtCall,  \* refreshPromise seen when the call reached queuedRefreshToken
  ops,             \* executions of refreshToken
  opCount,         \* executions of refreshToken started so far
  refreshPromise,  \* FetchManager.refreshPromise (0: null)
  isRefreshing,    \* FetchManager.isRefreshing
  isRefreshingRef, \* the isRefreshing ref returned by useFetchServer
  mounted,         \* the component owning the client is mounted
  accessStore,     \* storage key accessToken
  refreshStore,    \* storage key refreshToken
  expiryStore,     \* storage key refreshTokenExpiration (0: absent)
  clock,           \* Date.now() in units of 500 ms
  failCalls,       \* invocations of onRefreshFailCallback caused by each execution
  skipRefreshUrls, \* FetchManager.skipRefreshUrls
  refreshResponse, \* a refresh response body handed to the token extraction
  extracted        \* the token extracted from it (NULL: not extracted yet)

\* useFetch: the module-level cache and the instances
VARIABLES
  cache,           \* the Map cache, in insertion order: <<[key, data, timestamp]>>
  cacheTimers,     \* the Map cacheTimers: key -> timer id (0: no entry)
  timers,          \* pending timeouts: [id, key, due]
  now,             \* Date.now() in ms
  created,         \* useFetch has been called for the instance
  cacheKey,        \* cacheKey of each instance
  cacheTime,       \* config.cacheTime of each instance
  data,            \* the data ref of each instance
  error,           \* the error ref of each instance
  loading,         \* the loading ref of each instance
  abortController, \* abortController.value: the call it was created by (0: null)
  calls,           \* the calls of fetchData of each instance
  callCount,       \* calls of fetchData made by each instance
  instMounted,     \* the component of the instance is mounted
  lastStored,      \* when the entry of a key was last written and not removed
                   \* by clearCache, by an expired lookup or by the size limit
  recency          \* the keys by their last hit or write, the latest last

fetchVars == <<cache, cacheTimers, timers, now, created, cacheKey,
               cacheTime, data, error, loading, abortController, calls,
               callCount, instMounted, lastStored, recency>>

\* Emitter: one instance
VARIABLES
  events,          \* this.events: the listeners of each event, in order of
                   \* registration (NULL: the event has no array)
  stack,           \* the calls of emit that are running, the innermost last:
                   \* [event, rest: the listeners of its copy not yet called,
                   \*  barred: the functions that were off when it started]
  onceCalls,       \* how often the function of each once wrapper was called
  removed          \* the <<event, fn>> that off was called for, with no
                   \* on or once of them since

emitterVars == <<events, stack, onceCalls, removed>>

\* useSSE: one instance
VARIABLES
  sseOptions,            \* autoStart, autoReconnect, reconnectDelay,
                         \* maxReconnectDelay, maxRetries, onError
  source,                \* readyState of the EventSource ("null": no source)
  reconnectTimer,        \* the reconnect timeout: "null", "pending", "fired"
  currentReconnectDelay, \* delay of the next reconnect
  isManuallyClosed,      \* stop() was called since the last start()
  isConnected,           \* the isConnected ref
  retryCount,            \* the retryCount ref
  sseError,              \* the error ref holds an error
  esCreated,             \* EventSources constructed so far
  stopped,               \* stop() was called and the caller has not called
                         \* start() since
  sourceAuto,            \* the source was created by the reconnect timeout
  autoFailed,            \* reconnects by the timeout that failed in a row
  timerDelay,            \* the delay the reconnect timeout was last set with
  orphans                \* connecting or open EventSources that the variable
                         \* source no longer refers to

sseVars == <<sseOptions, source, reconnectTimer, currentReconnectDelay,
             isManuallyClosed, isConnected, retryCount, sseError, esCreated,
             stopped, sourceAuto, autoFailed, timerDelay, orphans>>

\* useCountdown: one instance
VARIABLES
  cdOptions,       \* expiredUnix, and whether options.onExpired is a function
  cdNow,           \* Math.floor(Date.now() / 1000)
  remaining,       \* the remaining ref
  cdTimer,         \* the interval of update is running
  onExpiredFn,     \* _onExpired is a function
  onSuccessFn,     \* _onSuccess is a function
  expiredCalls,    \* invocations of the onExpired handler
  successCalls     \* invocations of the onSuccess handler

cdVars == <<cdOptions, cdNow, remaining, cdTimer, onExpiredFn, onSuccessFn,
            expiredCalls, successCalls>>

\* useTypewriter: one instance
VARIABLES
  twOptions,        \* loop, autoStart, and what onTypeComplete calls
  textArray,        \* the texts, each a sequence of characters
  displayText,      \* the displayText ref
  currentIndex,     \* the currentIndex ref (from 0)
  isTyping,         \* the isTyping ref
  isDeleting,       \* the isDeleting ref
  isPaused,         \* the isPaused ref
  currentCharIndex, \* characters of the current text that are displayed
  timeoutId,        \* id of the timeout set last (0: null)
  twTimers,         \* the pending timeouts: [id, kind]
  completeCalls     \* invocations of onTypeComplete since the typing of the
                    \* current text began

twVars == <<twOptions, textArray, displayText, currentIndex, isTyping,
            isDeleting, isPaused, currentCharIndex, timeoutId, twTimers,
            completeCalls>>

vars == <<pc, url, hdr, isRetry, acc, joined, newToken, outcome, result, status,
          aborted, sendCount, saved, retryHdr, inFlightAtCall, ops, opCount,
          refreshPromise, isRefreshing, isRefreshingRef, mounted, accessStore,
          refreshStore, expiryStore, clock, failCalls, skipRefreshUrls,
          refreshResponse, extracted, fetchVars, emitterVars, sseVars, cdVars, twVars>>

reqVars == <<pc, url, hdr, isRetry, acc, joined, newToken, outcome, result, status,
             aborted, sendCount, saved, retryHdr, inFlightAtCall>>
storeVars == <<accessStore, refreshStore, expiryStore>>
\* what no step of the client changes: its configuration, and the input and
\* output of the token extraction taken on its own
otherVars == <<skipRefreshUrls, refreshResponse, extracted, fetchVars,
               emitterVars, sseVars, cdVars, twVars>>
\* the state of the client
clientVars == <<reqVars, ops, opCount, refreshPromise, isRefreshing,
                isRefreshingRef, mounted, storeVars, clock, failCalls>>

NoOp == [state |-> "none", rt |-> NULL, exp |-> 0, now |-> 0,
         sentNet |-> FALSE, netCalls |-> 0, signal |-> 0,
         value |-> UNDEF, error |-> ""]

\* the client after construction, whatever its skipRefreshUrls
InitClient ==
  /\ pc = [r \in Reqs |-> "idle"]
  /\ url = [r \in Reqs |-> OrdersUrl]
  /\ hdr = [r \in Reqs |-> NoHeader]
  /\ isRetry = [r \in Reqs |-> FALSE]
  /\ acc = [r \in Reqs |-> NULL]
  /\ joined = [r \in Reqs |-> 0]
  /\ newToken = [r \in Reqs |-> NULL]
  /\ outcome = [r \in Reqs |-> <<>>]
  /\ result = [r \in Reqs |-> <<>>]
  /\ status = [r \in Reqs |-> NoStatus]
  /\ aborted = [r \in Reqs |-> FALSE]
  /\ sendCount = [r \in Reqs |-> 0]
  /\ saved = [r \in Reqs |-> <<>>]
  /\ retryHdr = [r \in Reqs |-> NoHeader]
  /\ inFlightAtCall = [r \in Reqs |-> 0]
  /\ ops = [o \in Ops |-> NoOp]
  /\ opCount = 0
  /\ refreshPromise = 0
  /\ isRefreshing = FALSE
  /\ isRefreshingRef = FALSE
  /\ mounted = TRUE
  /\ accessStore \in {NULL, "T0"}
  /\ refreshStore \in {"rt", "", UNDEF}
  /\ expiryStore \in {0, 1}
  /\ clock = 0
  /\ failCalls = [o \in Ops |-> 0]

(* useFetch values *)
Insts == 1..NInst
CallIds == 1..MaxCalls
\* cache keys `${options.method || 'GET'}:${url}`
Keys == {"GET:/a", "GET:/b", "GET:/c"}
\* config.cacheTime in ms (0: no caching)
CacheTimes == {0, 2}
\* response bodies of the transport
Responses == {"d1", "d2"}
\* no time: the key has no entry written
NoTime == -1
NoCall == [state |-> "none", bypass |-> FALSE, cached |-> NULL]

\* Emitter: the events, the functions a caller registers, the wrappers of once
Events == {"e1", "e2"}
Fns == {"f", "g"}
WrapperIds == 1..MaxOnce
\* a listener function: fn itself (wrapper 0), or the wrapper that once made
\* for fn and an event
\* this.events[event] is undefined
NoArray == [array |-> FALSE, fns |-> <<>>]
Plain(fn) == [fn |-> fn, wrapper |-> 0, event |-> "none"]
Wrapper(id, ev, fn) == [fn |-> fn, wrapper |-> id, event |-> ev]

\* useSSE: the options of an instance; maxRetries is finite here, and the
\* delays are in seconds, with small values on both sides of each other
ReconnectDelays == {1, 2}
MaxReconnectDelays == {1, 3}
ErrorCallbacks == {"none", "stop", "start"}
SSEOptions == [autoStart : BOOLEAN, autoReconnect : BOOLEAN,
               reconnectDelay : ReconnectDelays,
               maxReconnectDelay : MaxReconnectDelays,
               maxRetries : 0..MaxRetriesBound, onError : ErrorCallbacks]
DefaultSSEOptions == [autoStart |-> FALSE, autoReconnect |-> TRUE,
                      reconnectDelay |-> 1, maxReconnectDelay |-> 3,
                      maxRetries |-> MaxRetriesBound, onError |-> "none"]

\* module load: empty cache and timers; no instance yet
InitUseFetch ==
  /\ cache = <<>>
  /\ cacheTimers = [k \in Keys |-> 0]
  /\ timers = {}
  /\ now = 0
  /\ created = [i \in Insts |-> FALSE]
  /\ cacheKey = [i \in Insts |-> "GET:/a"]
  /\ cacheTime = [i \in Insts |-> 0]
  /\ data = [i \in Insts |-> NULL]
  /\ error = [i \in Insts |-> NULL]
  /\ loading = [i \in Insts |-> FALSE]
  /\ abortController = [i \in Insts |-> 0]
  /\ calls = [i \in Insts |-> [q \in CallIds |-> NoCall]]
  /\ callCount = [i \in Insts |-> 0]
  /\ instMounted = [i \in Insts |-> FALSE]
  /\ lastStored = [k \in Keys |-> NoTime]
  /\ recency = <<>>

\* new Emitter(): no event has listeners, no emit is running
InitEmitter ==
  /\ events = [ev \in Events |-> NoArray]
  /\ stack = <<>>
  /\ onceCalls = [id \in WrapperIds |-> 0]
  /\ removed = {}

\* the refs and locals of useSSE(url, options), before the autoStart
FreshSSE(options) ==
  [source |-> "null", reconnectTimer |-> "null",
   currentReconnectDelay |-> options.reconnectDelay,
   isManuallyClosed |-> FALSE,
   isConnected |-> FALSE, retryCount |-> 0, sseError |-> FALSE,
   esCreated |-> 0, stopped |-> FALSE, sourceAuto |-> FALSE, autoFailed |-> 0,
   timerDelay |-> 0, orphans |-> 0]

\* the instance is in state s
SSEIs(s) ==
  /\ source = s.source
  /\ reconnectTimer = s.reconnectTimer
  /\ currentReconnectDelay = s.currentReconnectDelay
  /\ isManuallyClosed = s.isManuallyClosed
  /\ isConnected = s.isConnected
  /\ retryCount = s.retryCount
  /\ sseError = s.sseError
  /\ esCreated = s.esCreated
  /\ stopped = s.stopped
  /\ sourceAuto = s.sourceAuto
  /\ autoFailed = s.autoFailed
  /\ timerDelay = s.timerDelay
  /\ orphans = s.orphans

\* useSSE(url, options) with autoStart false
InitSSERefs(options) == sseOptions = options /\ SSEIs(FreshSSE(options))

\* useTypewriter: texts, arrays of texts, and the options of an instance;
\* onTypeComplete is a callback that calls nothing, pause(), stop() or next()
TextA == <<"a">>
TextB == <<"b", "c">>
TextArrays == {<<>>, <<TextA>>, <<TextA, TextB>>}
TypeCompleteCallbacks == {"none", "pause", "stop", "next"}
TypewriterOptions == [loop : BOOLEAN, autoStart : BOOLEAN,
                      onTypeComplete : TypeCompleteCallbacks]
\* useTypewriter([], { autoStart: false }): nothing is typed
QuietTypewriterOptions == [loop |-> TRUE, autoStart |-> FALSE,
                           onTypeComplete |-> "none"]
FreshTypewriter(texts) ==
  [textArray |-> texts, displayText |-> <<>>, currentIndex |-> 0,
   isTyping |-> FALSE, isDeleting |-> FALSE, isPaused |-> FALSE,
   currentCharIndex |-> 0, timeoutId |-> 0, twTimers |-> {},
   completeCalls |-> 0]
TypewriterIs(s) ==
  /\ textArray = s.textArray
  /\ displayText = s.displayText
  /\ currentIndex = s.currentIndex
  /\ isTyping = s.isTyping
  /\ isDeleting = s.isDeleting
  /\ isPaused = s.isPaused
  /\ currentCharIndex = s.currentCharIndex
  /\ timeoutId = s.timeoutId
  /\ twTimers = s.twTimers
  /\ completeCalls = s.completeCalls
InitQuietTypewriter ==
  twOptions = QuietTypewriterOptions /\ TypewriterIs(FreshTypewriter(<<>>))

\* useCountdown(expiredUnix, { onExpired }): the options of a call
CountdownOptions == [expiredUnix : 0..MaxExpiredUnix, onExpired : BOOLEAN]
QuietCountdownOptions == [expiredUnix |-> MaxExpiredUnix, onExpired |-> FALSE]

\* the locals of useCountdown(expiredUnix, { onExpired }) before start()
FreshCountdown(options) ==
  [remaining |-> 0, cdTimer |-> FALSE, onExpiredFn |-> options.onExpired,
   onSuccessFn |-> FALSE, expiredCalls |-> 0, successCalls |-> 0]

\* handleExpired: the interval is cleared, the handler called
handleExpired(s) ==
  [s EXCEPT !.cdTimer = FALSE,
            !.expiredCalls = IF s.onExpiredFn THEN @ + 1 ELSE @]

\* update at the time t
Max(a, b) == IF a > b THEN a ELSE b
update(s, expiredUnix, t) ==
  LET s1 == [s EXCEPT !.remaining = Max(0, expiredUnix - t)]
  IN  IF s1.remaining <= 0 THEN handleExpired(s1) ELSE s1

\* start: clearInterval(timer); update(); timer = setInterval(update, 1000)
startCountdown(s, expiredUnix, t) ==
  [update([s EXCEPT !.cdTimer = FALSE], expiredUnix, t) EXCEPT
     !.cdTimer = TRUE]

\* the countdown is in state s
CountdownIs(s) ==
  /\ remaining = s.remaining
  /\ cdTimer = s.cdTimer
  /\ onExpiredFn = s.onExpiredFn
  /\ onSuccessFn = s.onSuccessFn
  /\ expiredCalls = s.expiredCalls
  /\ successCalls = s.successCalls

\* useCountdown(expiredUnix, { onExpired }) called at CallTime
InitCountdown(options) ==
  /\ cdOptions = options
  /\ cdNow = CallTime
  /\ CountdownIs(startCountdown(FreshCountdown(options), options.expiredUnix,
                                CallTime))

\* an Emitter, a useSSE instance and a countdown that are not used, next to
\* the others
InitQuietRest ==
  /\ InitEmitter
  /\ InitSSERefs(DefaultSSEOptions)
  /\ InitCountdown(QuietCountdownOptions)
  /\ InitQuietTypewriter

\* no refresh response is under extraction
NoExtraction ==
  /\ refreshResponse = [accessToken |-> UNDEF, newAccessToken |-> UNDEF,
                        access_token |-> UNDEF, token |-> UNDEF]
  /\ extracted = NULL

\* a client constructed with the skipRefreshUrls option
Init ==
  /\ InitClient
  /\ skipRefreshUrls = ConstructorSkipRefreshUrls(ConfiguredOptions)
  /\ NoExtraction
  /\ InitUseFetch
  /\ InitQuietRest

\* a client constructed without the skipRefreshUrls option
InitDefault ==
  /\ InitClient
  /\ skipRefreshUrls = ConstructorSkipRefreshUrls(DefaultOptions)
  /\ NoExtraction
  /\ InitUseFetch
  /\ InitQuietRest

\* any refresh response body, about to go through the token extraction
InitExtract ==
  /\ InitClient
  /\ skipRefreshUrls = ConstructorSkipRefreshUrls(ConfiguredOptions)
  /\ refreshResponse \in Bodies
  /\ extracted = NULL
  /\ InitUseFetch
  /\ InitQuietRest

\* one FetchManager client that is not used, next to the other modules
InitQuietClient ==
  /\ InitClient
  /\ accessStore = NULL
  /\ refreshStore = "rt"
  /\ expiryStore = 0
  /\ skipRefreshUrls = ConstructorSkipRefreshUrls(ConfiguredOptions)
  /\ NoExtraction

(* ---------------------------- pure helpers ----------------------------- *)
\* String.prototype.includes on URLs: sub occurs in s as a contiguous run
Includes(s, sub) ==
  \E i \in 0..(Len(s) - Len(sub)) :
    \A j \in 1..Len(sub) : s[i + j] = sub[j]

\* onResponseError: skipRefreshUrls.some(skipUrl => requestUrl.includes(skipUrl))
ShouldSkipRefreshExact(u) == u \in skipRefreshUrls
ShouldSkipRefresh(u) == \E skipUrl \in skipRefreshUrls : Includes(u, skipUrl)

\* onResponseError: response.status === 401 && !options._isRetry
ShouldRefreshAnyError(st, retried) == st # 200 /\ ~retried
ShouldRefreshAlways(st, retried) == st = 401
ShouldRefresh(st, retried) == st = 401 /\ ~retried

\* hasRefreshToken: refreshToken !== null && !== undefined && !== ''
HasRefreshTokenNullOnly(refreshToken) == refreshToken # NULL
HasRefreshToken(refreshToken) ==
  refreshToken # NULL /\ refreshToken # UNDEF /\ refreshToken # ""

\* onRequest: if (token) headers.Authorization = `Bearer ${token}`
OnRequestHeaderAlways(token, headers) == Bearer(token)
OnRequestHeader(token, headers) ==
  IF Truthy(token) THEN Bearer(token) ELSE headers

\* onResponseError: headers of the retry, Authorization: `Bearer ${newToken}`
RetryHeaderKept(token, headers) == headers
RetryHeader(token, headers) == Bearer(token)

\* defaultSaveToken: localStorage.setItem('accessToken', token)
SetItem(token) == Str(token)

\* queuedRefreshToken: if (this.refreshPromise) return this.refreshPromise
JoinsInFlightNever(promise) == FALSE
JoinsInFlight(promise) == promise # 0

\* queuedRefreshToken, then/catch handlers: this.refreshPromise = null
ClearedPromiseKept(promise) == promise
ClearedPromise(promise) == 0

\* refreshToken: Math.floor(Date.now() / 1000), the clock counting 500 ms
CurrentTime(c) == (c * 500) \div 1000

\* refreshToken: refreshTokenExpiration && currentTime >= Number(refreshTokenExpiration)
IsExpiredStrict(expiration, currentTime) ==
  expiration # 0 /\ currentTime > expiration
IsExpired(expiration, currentTime) ==
  expiration # 0 /\ currentTime >= expiration

\* refreshToken: response.accessToken || response.newAccessToken ||
\*               response.access_token || response.token
ExtractTokenPresent(response) ==
  IF response.accessToken # UNDEF THEN response.accessToken
  ELSE IF response.newAccessToken # UNDEF THEN response.newAccessToken
  ELSE IF response.access_token # UNDEF THEN response.access_token
  ELSE response.token
ExtractToken(response) ==
  IF Truthy(response.accessToken) THEN response.accessToken
  ELSE IF Truthy(response.newAccessToken) THEN response.newAccessToken
  ELSE IF Truthy(response.access_token) THEN response.access_token
  ELSE response.token

SettledResolved(o) == ops[o].state = "resolved"
Settled(o) == ops[o].state \in {"resolved", "rejected"}
InFlight(o) == ops[o].state \in {"getRT", "getExp", "net"}

\* the reactions to a settled refresh promise are running: the wrapper's
\* finally block and the continuation of onResponseError of each waiter run
\* as microtasks, before any other event is handled
Draining ==
  \E r \in Reqs : \/ pc[r] = "queued" /\ Settled(joined[r])
                  \/ pc[r] = "refreshed"

(* ---------------------------- refresh coordinator ---------------------- *)
\* refreshToken() up to its first await: getRefreshTokenFn() is called
StartedOp == [NoOp EXCEPT !.state = "getRT", !.rt = refreshStore]

\* refreshToken: the options of the $fetchRaw call are { method, body }; no
\* abort signal of the call that started the refresh is passed on (0)
RefreshSignalOfStarter(r) == r
RefreshSignal(r) == 0

\* refreshToken: $fetchRaw has no onResponseError and the POST is not
\* retried, so an error of the refresh endpoint rejects refreshToken
FetchRawRetried(op) == [op EXCEPT !.netCalls = @ + 1]
FetchRawRejected(op) ==
  [op EXCEPT !.state = "rejected", !.error = ErrRefreshTransport]

\* onResponseError, catch block: throw refreshError
RefreshFailureThrownResponse(refreshError) == <<"response", 401>>
RefreshFailureThrown(refreshError) == <<"error", refreshError>>

\* queuedRefreshToken as called by request r through the useFetchServer
\* wrapper: the ref is set, then the original either hands back the promise
\* in flight or sets the flag and starts refreshToken()
queuedRefreshToken(r) ==
  /\ isRefreshingRef' = TRUE
  /\ inFlightAtCall' = [inFlightAtCall EXCEPT ![r] =
                          IF refreshPromise # 0 THEN refreshPromise
                                                ELSE opCount + 1]
  /\ IF JoinsInFlight(refreshPromise)
       THEN /\ joined' = [joined EXCEPT ![r] = refreshPromise]
            /\ UNCHANGED <<ops, opCount, refreshPromise, isRefreshing>>
       ELSE /\ opCount < NReq
            /\ opCount' = opCount + 1
            /\ ops' = [ops EXCEPT ![opCount + 1] =
                         [StartedOp EXCEPT !.signal = RefreshSignal(r)]]
            /\ isRefreshing' = TRUE
            /\ refreshPromise' = opCount + 1
            /\ joined' = [joined EXCEPT ![r] = opCount + 1]

\* the then / catch handlers chained on refreshToken(): the flag and the
\* promise are reset, then the outcome is passed on to the waiters
Settle(o, settledOp) ==
  /\ ops' = [ops EXCEPT ![o] = settledOp]
  /\ isRefreshing' = FALSE
  /\ refreshPromise' = ClearedPromise(refreshPromise)

\* refreshToken resumes with the refresh token
RefreshGotToken(o) ==
  /\ ~Draining
  /\ ops[o].state = "getRT"
  /\ IF ~Truthy(ops[o].rt)
       THEN Settle(o, [ops[o] EXCEPT !.state = "rejected",
                                         !.error = ErrNoRefreshToken])
       ELSE /\ ops' = [ops EXCEPT ![o].state = "getExp", ![o].exp = expiryStore]
            /\ UNCHANGED <<isRefreshing, refreshPromise>>
  /\ UNCHANGED <<reqVars, opCount, isRefreshingRef, mounted, storeVars,
                 clock, failCalls,
                 otherVars>>

\* refreshToken resumes with the expiration: validate it, then POST the
\* refresh token through $fetchRaw
RefreshGotExpiration(o) ==
  /\ ~Draining
  /\ ops[o].state = "getExp"
  /\ IF IsExpired(ops[o].exp, CurrentTime(clock))
       THEN Settle(o, [ops[o] EXCEPT !.state = "rejected",
                                     !.error = ErrExpired,
                                     !.now = CurrentTime(clock)])
       ELSE /\ ops' = [ops EXCEPT ![o].state = "net", ![o].sentNet = TRUE,
                                  ![o].netCalls = @ + 1,
                                  ![o].now = CurrentTime(clock)]
            /\ UNCHANGED <<isRefreshing, refreshPromise>>
  /\ UNCHANGED <<reqVars, opCount, isRefreshingRef, mounted, storeVars,
                 clock, failCalls,
                 otherVars>>

\* the refresh endpoint answers with a body
RefreshResponse(o, response) ==
  /\ ~Draining
  /\ ops[o].state = "net"
  /\ Settle(o, [ops[o] EXCEPT !.state = "resolved",
                            !.value = ExtractToken(response)])
  /\ UNCHANGED <<reqVars, opCount, isRefreshingRef, mounted, storeVars,
                 clock, failCalls,
                 otherVars>>

\* the refresh request fails ($fetchRaw has no interceptor: it just rejects)
RefreshError(o) ==
  /\ ~Draining
  /\ ops[o].state = "net"
  /\ Settle(o, FetchRawRejected(ops[o]))
  /\ UNCHANGED <<reqVars, opCount, isRefreshingRef, mounted, storeVars,
                 clock, failCalls,
                 otherVars>>

(* ---------------------------- authenticated client --------------------- *)
\* $fetch(request, options) up to the first await of onRequest:
\* getTokenFn() is called
CallFetch(r) ==
  /\ acc' = [acc EXCEPT ![r] = accessStore]
  /\ pc' = [pc EXCEPT ![r] = "onRequest"]

\* fetch(url, options)
Fetch(r, u) ==
  /\ ~Draining
  /\ pc[r] = "idle"
  /\ url' = [url EXCEPT ![r] = u]
  /\ CallFetch(r)
  /\ UNCHANGED <<hdr, isRetry, joined, newToken, outcome, result, sendCount, saved,
                 retryHdr, inFlightAtCall, ops, opCount, refreshPromise,
                 isRefreshing, isRefreshingRef, mounted, storeVars, clock,
                 failCalls,
                 status, aborted, otherVars>>

\* onRequest resumes with the token; the request goes to the transport
OnRequest(r) ==
  /\ ~Draining
  /\ pc[r] = "onRequest"
  /\ hdr' = [hdr EXCEPT ![r] = OnRequestHeader(acc[r], hdr[r])]
  /\ sendCount' = [sendCount EXCEPT ![r] = @ + 1]
  /\ retryHdr' = [retryHdr EXCEPT ![r] =
                    IF isRetry[r] THEN OnRequestHeader(acc[r], hdr[r]) ELSE @]
  /\ pc' = [pc EXCEPT ![r] = "sent"]
  /\ UNCHANGED <<url, isRetry, acc, joined, newToken, outcome, result, saved,
                 inFlightAtCall, ops, opCount, refreshPromise, isRefreshing,
                 isRefreshingRef, mounted, storeVars, clock, failCalls,
                 status, aborted, otherVars>>

\* the transport answers with status st; an error status runs onResponseError
\* up to its first await (hasRefreshToken calls getRefreshTokenFn)
Response(r, st) ==
  /\ ~Draining
  /\ pc[r] = "sent"
  /\ ~aborted[r]
  /\ status' = [status EXCEPT ![r] = st]
  /\ IF st = 200
       THEN /\ pc' = [pc EXCEPT ![r] = "done"]
            /\ result' = [result EXCEPT ![r] = <<"ok">>]
            /\ acc' = acc
       ELSE IF ShouldRefresh(st, isRetry[r]) /\ ~ShouldSkipRefresh(url[r])
       THEN /\ pc' = [pc EXCEPT ![r] = "hasRefreshToken"]
            /\ acc' = [acc EXCEPT ![r] = refreshStore]
            /\ result' = result
       ELSE /\ pc' = [pc EXCEPT ![r] = "done"]
            /\ result' = [result EXCEPT ![r] = <<"response", st>>]
            /\ acc' = acc
  /\ UNCHANGED <<url, hdr, isRetry, joined, newToken, outcome, sendCount, saved,
                 retryHdr, inFlightAtCall, ops, opCount, refreshPromise,
                 isRefreshing, isRefreshingRef, mounted, storeVars, clock,
                 failCalls,
                 aborted, otherVars>>

\* onResponseError resumes from hasRefreshToken: without a refresh token
\* the 401 is thrown, otherwise queuedRefreshToken is called and awaited
CheckedRefreshToken(r) ==
  /\ ~Draining
  /\ pc[r] = "hasRefreshToken"
  /\ IF ~HasRefreshToken(acc[r])
       THEN /\ pc' = [pc EXCEPT ![r] = "done"]
            /\ result' = [result EXCEPT ![r] = <<"response", 401>>]
            /\ UNCHANGED <<joined, inFlightAtCall, ops, opCount,
                           refreshPromise, isRefreshing, isRefreshingRef>>
       ELSE /\ queuedRefreshToken(r)
            /\ pc' = [pc EXCEPT ![r] = "queued"]
            /\ result' = result
  /\ UNCHANGED <<url, hdr, isRetry, acc, newToken, outcome, sendCount, saved, retryHdr,
                 mounted, storeVars, clock, failCalls,
                 status, aborted, otherVars>>

\* the wrapper of queuedRefreshToken resumes once the awaited promise has
\* settled: its finally block resets the ref
WrapperFinally(r) ==
  /\ pc[r] = "queued"
  /\ Settled(joined[r])
  /\ isRefreshingRef' = FALSE
  /\ pc' = [pc EXCEPT ![r] = "refreshed"]
  /\ UNCHANGED <<url, hdr, isRetry, acc, joined, newToken, outcome, result, sendCount,
                 saved, retryHdr, inFlightAtCall, ops, opCount,
                 refreshPromise, isRefreshing, mounted, storeVars, clock,
                 failCalls,
                 status, aborted, otherVars>>

\* onResponseError resumes from queuedRefreshToken: with a token it calls
\* saveTokenFn; with an error handleTokenRefreshFailure runs and the error
\* is rethrown
Refreshed(r) ==
  /\ pc[r] = "refreshed"
  /\ IF ops[joined[r]].state = "resolved"
       THEN /\ newToken' = [newToken EXCEPT ![r] = ops[joined[r]].value]
            /\ outcome' = [outcome EXCEPT ![r] = <<"token", ops[joined[r]].value>>]
            /\ saved' = [saved EXCEPT ![r] = Append(@, ops[joined[r]].value)]
            /\ accessStore' = SetItem(ops[joined[r]].value)
            /\ pc' = [pc EXCEPT ![r] = "saveToken"]
            /\ UNCHANGED <<result, failCalls>>
       ELSE /\ failCalls' = [failCalls EXCEPT ![joined[r]] = @ + 1]
            /\ pc' = [pc EXCEPT ![r] = "done"]
            /\ result' = [result EXCEPT ![r] =
                            RefreshFailureThrown(ops[joined[r]].error)]
            /\ outcome' = [outcome EXCEPT ![r] = <<"error", ops[joined[r]].error>>]
            /\ UNCHANGED <<newToken, saved, accessStore>>
  /\ UNCHANGED <<url, hdr, isRetry, acc, joined, sendCount, retryHdr,
                 inFlightAtCall, ops, opCount, refreshPromise, isRefreshing,
                 isRefreshingRef, mounted, refreshStore, expiryStore, clock,
                 status, aborted, otherVars>>

\* onResponseError resumes from saveTokenFn: the request is marked, its
\* header overwritten, and $fetch called again
Retry(r) ==
  /\ ~Draining
  /\ pc[r] = "saveToken"
  /\ isRetry' = [isRetry EXCEPT ![r] = TRUE]
  /\ hdr' = [hdr EXCEPT ![r] = RetryHeader(newToken[r], hdr[r])]
  /\ CallFetch(r)
  /\ UNCHANGED <<url, joined, newToken, outcome, result, sendCount, saved, retryHdr,
                 inFlightAtCall, ops, opCount, refreshPromise, isRefreshing,
                 isRefreshingRef, mounted, storeVars, clock, failCalls,
                 status, aborted, otherVars>>

\* the transport fails without a response (network error): ofetch rejects
\* the call; onResponseError does not run
RequestFailed(r) ==
  /\ ~Draining
  /\ pc[r] = "sent"
  /\ ~aborted[r]
  /\ status' = [status EXCEPT ![r] = TransportFailure]
  /\ pc' = [pc EXCEPT ![r] = "done"]
  /\ result' = [result EXCEPT ![r] = <<"failure">>]
  /\ UNCHANGED <<url, hdr, isRetry, acc, joined, newToken, outcome, sendCount,
                 saved, retryHdr, inFlightAtCall, ops, opCount, refreshPromise,
                 isRefreshing, isRefreshingRef, mounted, storeVars, clock,
                 failCalls, aborted, otherVars>>

\* the caller fires the abort signal it passed in the options of call r:
\* every transport request that carries this signal is aborted
Abort(r) ==
  /\ ~Draining
  /\ pc[r] \notin {"idle", "done"}
  /\ ~aborted[r]
  /\ aborted' = [aborted EXCEPT ![r] = TRUE]
  /\ LET hit == {o \in Ops : ops[o].state = "net" /\ ops[o].signal = r}
     IN  /\ ops' = [o \in Ops |->
                     IF o \in hit
                       THEN [ops[o] EXCEPT !.state = "rejected",
                                           !.error = ErrAborted]
                       ELSE ops[o]]
         /\ IF hit # {}
              THEN /\ isRefreshing' = FALSE
                   /\ refreshPromise' = ClearedPromise(refreshPromise)
              ELSE UNCHANGED <<isRefreshing, refreshPromise>>
  /\ UNCHANGED <<pc, url, hdr, isRetry, acc, joined, newToken, outcome, result,
                 status, sendCount, saved, retryHdr, inFlightAtCall, opCount,
                 isRefreshingRef, mounted, storeVars, clock, failCalls,
                 otherVars>>

\* the transport rejects the aborted request of call r
Aborted(r) ==
  /\ ~Draining
  /\ pc[r] = "sent"
  /\ aborted[r]
  /\ status' = [status EXCEPT ![r] = TransportFailure]
  /\ pc' = [pc EXCEPT ![r] = "done"]
  /\ result' = [result EXCEPT ![r] = <<"aborted">>]
  /\ UNCHANGED <<url, hdr, isRetry, acc, joined, newToken, outcome, sendCount,
                 saved, retryHdr, inFlightAtCall, ops, opCount, refreshPromise,
                 isRefreshing, isRefreshingRef, mounted, storeVars, clock,
                 failCalls, aborted, otherVars>>

\* refreshToken, last line, on a response body taken on its own
Extract ==
  /\ extracted = NULL
  /\ extracted' = ExtractToken(refreshResponse)
  /\ UNCHANGED <<clientVars, skipRefreshUrls, refreshResponse, fetchVars,
                 emitterVars, sseVars, cdVars, twVars>>

(* ---------------------------- environment ------------------------------ *)
\* useFetchServer: the onUnmounted cleanup
Unmount ==
  /\ ~Draining
  /\ mounted
  /\ mounted' = FALSE
  /\ IF refreshPromise # 0
       THEN isRefreshing' = FALSE /\ refreshPromise' = 0
       ELSE UNCHANGED <<isRefreshing, refreshPromise>>
  /\ UNCHANGED <<reqVars, ops, opCount, isRefreshingRef, storeVars, clock,
                 failCalls,
                 otherVars>>

\* useFetchServer: the default clearTokens
ClearTokens ==
  /\ ~Draining
  /\ storeVars # <<NULL, NULL, 0>>
  /\ accessStore' = NULL
  /\ refreshStore' = NULL
  /\ expiryStore' = 0
  /\ UNCHANGED <<reqVars, ops, opCount, refreshPromise, isRefreshing,
                 isRefreshingRef, mounted, clock, failCalls,
                 otherVars>>

\* 500 ms pass
Tick ==
  /\ ~Draining
  /\ clock < MaxClock
  /\ clock' = clock + 1
  /\ UNCHANGED <<reqVars, ops, opCount, refreshPromise, isRefreshing,
                 isRefreshingRef, mounted, storeVars, failCalls,
                 otherVars>>

Next ==
  \/ \E r \in Reqs, u \in Urls : Fetch(r, u)
  \/ \E r \in Reqs : OnRequest(r)
  \/ \E r \in Reqs, st \in Statuses : Response(r, st)
  \/ \E r \in Reqs : RequestFailed(r)
  \/ \E r \in Reqs : CheckedRefreshToken(r)
  \/ \E r \in Reqs : WrapperFinally(r)
  \/ \E r \in Reqs : Refreshed(r)
  \/ \E r \in Reqs : Retry(r)
  \/ \E o \in Ops : RefreshGotToken(o)
  \/ \E o \in Ops : RefreshGotExpiration(o)
  \/ \E o \in Ops, response \in RefreshBodies : RefreshResponse(o, response)
  \/ \E o \in Ops : RefreshError(o)
  \/ Unmount
  \/ ClearTokens
  \/ Tick

Spec == Init /\ [][Next]_vars

\* a client on which fetch is called once: the first call only
NextSingle ==
  \/ \E u \in Urls : Fetch(1, u)
  \/ \E r \in Reqs : OnRequest(r)
  \/ \E r \in Reqs, st \in Statuses : Response(r, st)
  \/ \E r \in Reqs : RequestFailed(r)
  \/ \E r \in Reqs : CheckedRefreshToken(r)
  \/ \E r \in Reqs : WrapperFinally(r)
  \/ \E r \in Reqs : Refreshed(r)
  \/ \E r \in Reqs : Retry(r)
  \/ \E o \in Ops : RefreshGotToken(o)
  \/ \E o \in Ops : RefreshGotExpiration(o)
  \/ \E o \in Ops, response \in RefreshBodies : RefreshResponse(o, response)
  \/ \E o \in Ops : RefreshError(o)
  \/ Unmount
  \/ ClearTokens
  \/ Tick

SpecSingle == Init /\ [][NextSingle]_vars

\* onResponseError resumes from saveTokenFn with a rejection (the injected
\* function, or localStorage.setItem, throws): the catch block runs
\* handleTokenRefreshFailure and rethrows
SaveTokenRejected(r) ==
  /\ ~Draining
  /\ pc[r] = "saveToken"
  /\ failCalls' = [failCalls EXCEPT ![joined[r]] = @ + 1]
  /\ pc' = [pc EXCEPT ![r] = "done"]
  /\ result' = [result EXCEPT ![r] = <<"error", ErrSaveToken>>]
  /\ UNCHANGED <<url, hdr, isRetry, acc, joined, newToken, outcome, sendCount,
                 saved, retryHdr, inFlightAtCall, ops, opCount, refreshPromise,
                 isRefreshing, isRefreshingRef, mounted, storeVars, clock,
                 status, aborted, otherVars>>

\* a single call on a client whose saveTokenFn may fail
NextSave ==
  \/ NextSingle
  \/ \E r \in Reqs : SaveTokenRejected(r)

SpecSave == Init /\ [][NextSave]_vars

\* a single call on a client constructed without the skipRefreshUrls option
SpecDefault == InitDefault /\ [][NextSingle]_vars

\* callers may fire the abort signal of their call
NextAbort ==
  \/ \E r \in Reqs : Fetch(r, OrdersUrl)
  \/ \E r \in Reqs : OnRequest(r)
  \/ \E r \in Reqs, st \in Statuses : Response(r, st)
  \/ \E r \in Reqs : Abort(r)
  \/ \E r \in Reqs : Aborted(r)
  \/ \E r \in Reqs : CheckedRefreshToken(r)
  \/ \E r \in Reqs : WrapperFinally(r)
  \/ \E r \in Reqs : Refreshed(r)
  \/ \E r \in Reqs : Retry(r)
  \/ \E o \in Ops : RefreshGotToken(o)
  \/ \E o \in Ops : RefreshGotExpiration(o)
  \/ \E o \in Ops, response \in RefreshBodies : RefreshResponse(o, response)
  \/ \E o \in Ops : RefreshError(o)
  \/ Unmount

SpecAbort == Init /\ [][NextAbort]_vars

\* the token extraction applied to every refresh response body
SpecExtract == InitExtract /\ [][Extract]_vars

\* every transport call and every accessor call settles, and every
\* continuation that is ready to run is run
Fairness ==
  /\ \A r \in Reqs :
       /\ WF_vars(OnRequest(r))
       /\ WF_vars((\E st \in Statuses : Response(r, st)) \/ RequestFailed(r))
       /\ WF_vars(CheckedRefreshToken(r))
       /\ WF_vars(WrapperFinally(r))
       /\ WF_vars(Refreshed(r))
       /\ WF_vars(Retry(r))
  /\ \A o \in Ops :
       /\ WF_vars(RefreshGotToken(o))
       /\ WF_vars(RefreshGotExpiration(o))
       /\ WF_vars((\E response \in RefreshBodies : RefreshResponse(o, response))
                    \/ RefreshError(o))

\* the client with the stores and the clock left alone while calls run
NextLive ==
  \/ \E r \in Reqs, u \in Urls : Fetch(r, u)
  \/ \E r \in Reqs : OnRequest(r)
  \/ \E r \in Reqs, st \in Statuses : Response(r, st)
  \/ \E r \in Reqs : RequestFailed(r)
  \/ \E r \in Reqs : CheckedRefreshToken(r)
  \/ \E r \in Reqs : WrapperFinally(r)
  \/ \E r \in Reqs : Refreshed(r)
  \/ \E r \in Reqs : Retry(r)
  \/ \E o \in Ops : RefreshGotToken(o)
  \/ \E o \in Ops : RefreshGotExpiration(o)
  \/ \E o \in Ops, response \in RefreshBodies : RefreshResponse(o, response)
  \/ \E o \in Ops : RefreshError(o)
  \/ Unmount

SpecLive == Init /\ [][NextLive]_vars /\ Fairness

(* ---------------------------- useFetch ------------------------------- *)
\* everything outside useFetch
outsideFetch == <<clientVars, skipRefreshUrls, refreshResponse, extracted,
                  emitterVars, sseVars, cdVars, twVars>>

\* the keys of the Map cache, and Map.get
CacheKeys(c) == {c[j].key : j \in 1..Len(c)}
CacheGet(c, k) == c[CHOOSE j \in 1..Len(c) : c[j].key = k]
\* Map.delete
CacheDelete(c, k) == SelectSeq(c, LAMBDA e : e.key # k)
\* Map.set: a key the Map holds keeps its place in the iteration order
CacheSet(c, k, d, ts) ==
  IF k \in CacheKeys(c)
    THEN [j \in 1..Len(c) |->
            IF c[j].key = k THEN [key |-> k, data |-> d, timestamp |-> ts]
                            ELSE c[j]]
    ELSE Append(c, [key |-> k, data |-> d, timestamp |-> ts])

\* the module-level maps and the pending timeouts, as one value
Maps == [cache |-> cache, cacheTimers |-> cacheTimers, timers |-> timers]

\* cleanupExpiredCache(url): clear and forget the timer of the key, delete
\* the entry
cleanupExpiredCache(m, k) ==
  [cache |-> CacheDelete(m.cache, k),
   cacheTimers |-> [m.cacheTimers EXCEPT ![k] = 0],
   timers |-> {t \in m.timers : t.id # m.cacheTimers[k]}]

\* enforceCacheLimit: if (cache.size > MAX_CACHE_SIZE) remove the first key
OverLimit(size) == size > MAX_CACHE_SIZE
enforceCacheLimit(m) ==
  IF OverLimit(Len(m.cache))
    THEN cleanupExpiredCache(m, m.cache[1].key)
    ELSE m

\* fetchData: if (!bypassCache && cacheTime > 0)
ChecksCacheAlways(bypassCache, ct) == ct > 0
ChecksCache(bypassCache, ct) == ~bypassCache /\ ct > 0

\* fetchData: cached && now - cached.timestamp < cacheTime
IsFresh(entry, ct) == now - entry.timestamp < ct

\* setTimeout: a timer id that no pending timeout has
NewTimer(pending) ==
  CHOOSE n \in 1..(Cardinality(pending) + 1) :
    /\ \A t \in pending : t.id # n
    /\ \A m \in 1..(n - 1) : \E t \in pending : t.id = m

\* the key k has just been served or written
Used(r, k) == Append(SelectSeq(r, LAMBDA j : j # k), k)

\* cleanup(): abort the request of the controller, forget the controller
AbortedCalls(i) ==
  IF abortController[i] # 0 /\ calls[i][abortController[i]].state = "flight"
    THEN [calls[i] EXCEPT ![abortController[i]].state = "aborted"]
    ELSE calls[i]

\* a continuation of fetchData is ready to run as a microtask: the one of a
\* cache hit (await Promise.resolve()) or of an aborted request
Resuming ==
  \E i \in Insts, q \in CallIds : calls[i][q].state \in {"hit", "aborted"}

\* fetchData(bypassCache) up to its first await, on an instance with
\* cache key k and cacheTime ct
fetchData(i, bypassCache, k, ct) ==
  /\ callCount[i] < MaxCalls
  /\ callCount' = [callCount EXCEPT ![i] = @ + 1]
  /\ loading' = [loading EXCEPT ![i] = TRUE]
  /\ error' = [error EXCEPT ![i] = NULL]
  /\ LET q == callCount[i] + 1
         has == ChecksCache(bypassCache, ct) /\ k \in CacheKeys(cache)
         hit == has /\ IsFresh(CacheGet(cache, k), ct)
         m == IF has /\ ~hit THEN cleanupExpiredCache(Maps, k) ELSE Maps
     IN  /\ calls' = [calls EXCEPT ![i] =
                        [AbortedCalls(i) EXCEPT ![q] =
                           [state |-> IF hit THEN "hit" ELSE "flight",
                            bypass |-> bypassCache,
                            cached |-> IF hit THEN CacheGet(cache, k).data
                                              ELSE NULL]]]
         /\ abortController' = [abortController EXCEPT ![i] =
                                  IF hit THEN 0 ELSE q]
         /\ cache' = m.cache
         /\ cacheTimers' = m.cacheTimers
         /\ timers' = m.timers
         /\ lastStored' = IF has /\ ~hit THEN [lastStored EXCEPT ![k] = NoTime]
                                         ELSE lastStored
         /\ recency' = IF hit THEN Used(recency, k) ELSE recency
  /\ UNCHANGED <<now, data>>

\* useFetch(url, options, { cacheTime, immediate }): with immediate,
\* fetchData() is called at once
UseFetch(i, k, ct, immediate) ==
  /\ ~created[i]
  /\ created' = [created EXCEPT ![i] = TRUE]
  /\ instMounted' = [instMounted EXCEPT ![i] = TRUE]
  /\ cacheKey' = [cacheKey EXCEPT ![i] = k]
  /\ cacheTime' = [cacheTime EXCEPT ![i] = ct]
  /\ IF immediate
       THEN fetchData(i, FALSE, k, ct)
       ELSE UNCHANGED <<callCount, loading, error, calls, abortController,
                        cache, cacheTimers, timers, lastStored, recency,
                        now, data>>
  /\ UNCHANGED outsideFetch

\* refetch = () => fetchData(true)
Refetch(i) ==
  /\ created[i]
  /\ instMounted[i]
  /\ fetchData(i, TRUE, cacheKey[i], cacheTime[i])
  /\ UNCHANGED <<created, cacheKey, cacheTime, instMounted>>
  /\ UNCHANGED outsideFetch

\* fetchData, finally block: loading.value = false; abortController.value = null
Finally(i, q) ==
  /\ loading' = [loading EXCEPT ![i] = FALSE]
  /\ abortController' = [abortController EXCEPT ![i] = 0]
  /\ calls' = [calls EXCEPT ![i][q].state = "done"]

\* fetchData resumes on a cache hit: data.value = cached.data
HitResumed(i, q) ==
  /\ calls[i][q].state = "hit"
  /\ data' = [data EXCEPT ![i] = calls[i][q].cached]
  /\ Finally(i, q)
  /\ UNCHANGED <<cache, cacheTimers, timers, now, created, cacheKey,
                 cacheTime, error, callCount, instMounted, lastStored, recency>>
  /\ UNCHANGED outsideFetch

\* fetchData resumes with the AbortError of its aborted request, which the
\* catch block ignores
AbortResumed(i, q) ==
  /\ calls[i][q].state = "aborted"
  /\ Finally(i, q)
  /\ UNCHANGED <<cache, cacheTimers, timers, now, created, cacheKey,
                 cacheTime, data, error, callCount, instMounted, lastStored, recency>>
  /\ UNCHANGED outsideFetch

\* fetchData resumes with the response: data is set and, with a cacheTime,
\* the size limit enforced, the entry written and its expiry timer started
Responded(i, q, response) ==
  /\ ~Resuming
  /\ calls[i][q].state = "flight"
  /\ data' = [data EXCEPT ![i] = response]
  /\ error' = [error EXCEPT ![i] = NULL]
  /\ Finally(i, q)
  /\ IF cacheTime[i] > 0
       THEN LET k == cacheKey[i]
                m == enforceCacheLimit(Maps)
                evicted == CacheKeys(cache) \ CacheKeys(m.cache)
                id == NewTimer(m.timers)
            IN  /\ cache' = CacheSet(m.cache, k, response, now)
                /\ timers' = m.timers \cup
                     {[id |-> id, key |-> k, due |-> now + cacheTime[i]]}
                /\ cacheTimers' = [m.cacheTimers EXCEPT ![k] = id]
                /\ lastStored' = [j \in Keys |->
                                    IF j = k THEN now
                                    ELSE IF j \in evicted THEN NoTime
                                    ELSE lastStored[j]]
                /\ recency' = Used(recency, k)
       ELSE UNCHANGED <<cache, timers, cacheTimers, lastStored, recency>>
  /\ UNCHANGED <<now, created, cacheKey, cacheTime, callCount, instMounted>>
  /\ UNCHANGED outsideFetch

\* fetchData resumes with an error of the transport: error.value = err
RequestErrored(i, q) ==
  /\ ~Resuming
  /\ calls[i][q].state = "flight"
  /\ error' = [error EXCEPT ![i] = "err"]
  /\ Finally(i, q)
  /\ UNCHANGED <<cache, cacheTimers, timers, now, created, cacheKey,
                 cacheTime, data, callCount, instMounted, lastStored, recency>>
  /\ UNCHANGED outsideFetch

\* clearCache()
ClearCache(i) ==
  /\ created[i]
  /\ cacheKey[i] \in CacheKeys(cache)
  /\ LET m == cleanupExpiredCache(Maps, cacheKey[i])
     IN  /\ cache' = m.cache
         /\ cacheTimers' = m.cacheTimers
         /\ timers' = m.timers
  /\ lastStored' = [lastStored EXCEPT ![cacheKey[i]] = NoTime]
  /\ UNCHANGED <<now, created, cacheKey, cacheTime, data, error,
                 loading, abortController, calls, callCount, instMounted,
                 recency>>
  /\ UNCHANGED outsideFetch

\* the expiry timeout of an entry fires: cleanupExpiredCache(cacheKey)
TimerFired(t) ==
  /\ ~Resuming
  /\ t \in timers
  /\ t.due <= now
  /\ LET m == cleanupExpiredCache([Maps EXCEPT !.timers = timers \ {t}], t.key)
     IN  /\ cache' = m.cache
         /\ cacheTimers' = m.cacheTimers
         /\ timers' = m.timers
  /\ UNCHANGED <<now, created, cacheKey, cacheTime, data, error,
                 loading, abortController, calls, callCount, instMounted,
                 lastStored, recency>>
  /\ UNCHANGED outsideFetch

\* onUnmounted: cleanup()
FetchUnmounted(i) ==
  /\ created[i]
  /\ instMounted[i]
  /\ instMounted' = [instMounted EXCEPT ![i] = FALSE]
  /\ calls' = [calls EXCEPT ![i] = AbortedCalls(i)]
  /\ abortController' = [abortController EXCEPT ![i] = 0]
  /\ UNCHANGED <<cache, cacheTimers, timers, now, created, cacheKey,
                 cacheTime, data, error, loading, callCount, lastStored, recency>>
  /\ UNCHANGED outsideFetch

\* one ms passes; a timeout that is due fires before the clock moves on
Elapsed ==
  /\ ~Resuming
  /\ now < MaxNow
  /\ \A t \in timers : t.due > now
  /\ now' = now + 1
  /\ UNCHANGED <<cache, cacheTimers, timers, created, cacheKey,
                 cacheTime, data, error, loading, abortController, calls,
                 callCount, instMounted, lastStored, recency>>
  /\ UNCHANGED outsideFetch

\* instances of useFetch for one URL
NextFetch ==
  \/ \E i \in 1..2, ct \in CacheTimes, immediate \in BOOLEAN :
       UseFetch(i, "GET:/a", ct, immediate)
  \/ Refetch(1)
  \/ \E i \in Insts, q \in CallIds : HitResumed(i, q)
  \/ \E i \in Insts, q \in CallIds : AbortResumed(i, q)
  \/ \E i \in Insts, q \in CallIds, response \in Responses :
       Responded(i, q, response)
  \/ \E i \in Insts, q \in CallIds : RequestErrored(i, q)
  \/ \E i \in Insts : ClearCache(i)
  \/ \E t \in timers : TimerFired(t)
  \/ \E i \in Insts : FetchUnmounted(i)
  \/ Elapsed

InitFetch == InitQuietClient /\ InitUseFetch /\ InitQuietRest

SpecFetch == InitFetch /\ [][NextFetch]_vars

\* the URLs an instance may be created for in the runs that fill the
\* cache: the first two differ, the last may repeat one of them
KeysOf(i) == IF i = 1 THEN {"GET:/a"} ELSE IF i = 2 THEN {"GET:/b"} ELSE Keys

\* caching instances, each refetched at most once
NextCache ==
  \/ \E i \in Insts : \E k \in KeysOf(i) : UseFetch(i, k, 2, TRUE)
  \/ \E i \in Insts : callCount[i] < 2 /\ Refetch(i)
  \/ \E i \in Insts, q \in CallIds : HitResumed(i, q)
  \/ \E i \in Insts, q \in CallIds : AbortResumed(i, q)
  \/ \E i \in Insts, q \in CallIds : Responded(i, q, "d1")
  \/ \E i \in Insts : ClearCache(i)
  \/ \E t \in timers : TimerFired(t)
  \/ Elapsed

SpecCache == InitFetch /\ [][NextCache]_vars

(* ----------------------------- Emitter ------------------------------- *)
\* everything outside the Emitter
outsideEmitter == <<clientVars, skipRefreshUrls, refreshResponse, extracted,
                    fetchVars, sseVars, cdVars, twVars>>

\* on: (this.events[event] ||= []).push(fn)
on(m, ev, l) == [m EXCEPT ![ev] = [array |-> TRUE, fns |-> Append(@.fns, l)]]

\* the test of the filter of off; off: no array, no change, else the array
\* without the listeners that are fn
Kept(c, l) == c # l
off(m, ev, l) ==
  IF ~m[ev].array THEN m
  ELSE [m EXCEPT ![ev].fns = SelectSeq(@, LAMBDA c : Kept(c, l))]

\* the wrapper ids held by a listener array or by the copy of a running emit
IdsOf(fns) == {fns[j].wrapper : j \in 1..Len(fns)}
HeldIds ==
  UNION {IdsOf(events[ev].fns) : ev \in Events} \cup
  UNION {IdsOf(stack[d].rest) : d \in 1..Len(stack)}
\* a new closure: the smallest id that nothing holds
NewWrapper == CHOOSE id \in WrapperIds \ HeldIds :
                \A other \in WrapperIds \ HeldIds : id <= other

\* the innermost running emit
Top == stack[Len(stack)]
\* emit has taken its copy and has not called its first listener yet: no
\* code of a caller runs in between
Entering == stack # <<>> /\ Top.called = 0

\* a caller (top level, or the listener that is running) calls on(ev, fn)
EmitterOn(ev, fn) ==
  /\ ~Entering
  /\ Len(events[ev].fns) < MaxListeners
  /\ events' = on(events, ev, Plain(fn))
  /\ removed' = removed \ {<<ev, fn>>}
  /\ UNCHANGED <<stack, onceCalls, outsideEmitter>>

\* a caller calls once(ev, fn): a new wrapper is registered with on
EmitterOnce(ev, fn) ==
  /\ ~Entering
  /\ Len(events[ev].fns) < MaxListeners
  /\ WrapperIds \ HeldIds # {}
  /\ events' = on(events, ev, Wrapper(NewWrapper, ev, fn))
  /\ onceCalls' = [onceCalls EXCEPT ![NewWrapper] = 0]
  /\ removed' = removed \ {<<ev, fn>>}
  /\ UNCHANGED <<stack, outsideEmitter>>

\* a caller calls off(ev, fn)
EmitterOff(ev, fn) ==
  /\ ~Entering
  /\ events' = off(events, ev, Plain(fn))
  /\ removed' = removed \cup {<<ev, fn>>}
  /\ UNCHANGED <<stack, onceCalls, outsideEmitter>>

\* a caller calls emit(ev): no array, return; else iterate over a copy
Emit(ev) ==
  /\ ~Entering
  /\ Len(stack) < MaxDepth
  /\ \/ /\ ~events[ev].array \/ events[ev].fns = <<>>
        /\ UNCHANGED stack
     \/ /\ events[ev].array
        /\ events[ev].fns # <<>>
        /\ stack' = Append(stack,
                           [event |-> ev, rest |-> events[ev].fns, called |-> 0,
                            barred |-> {fn \in Fns : <<ev, fn>> \in removed}])
  /\ UNCHANGED <<events, onceCalls, removed, outsideEmitter>>

\* the loop of emit calls the next listener of its copy; a wrapper calls
\* off for itself and then its function
Invoke ==
  /\ stack # <<>>
  /\ Top.rest # <<>>
  /\ LET l == Head(Top.rest) IN
       /\ stack' = [stack EXCEPT ![Len(stack)].rest = Tail(@),
                                 ![Len(stack)].called = @ + 1]
       /\ IF l.wrapper > 0
          THEN /\ events' = off(events, l.event, l)
               /\ onceCalls' = [onceCalls EXCEPT ![l.wrapper] = @ + 1]
          ELSE UNCHANGED <<events, onceCalls>>
  /\ UNCHANGED <<removed, outsideEmitter>>

\* the last listener of the copy has returned: emit returns
EmitReturn ==
  /\ stack # <<>>
  /\ Top.rest = <<>>
  /\ stack' = SubSeq(stack, 1, Len(stack) - 1)
  /\ UNCHANGED <<events, onceCalls, removed, outsideEmitter>>

NextEmitter ==
  \/ \E ev \in Events, fn \in Fns :
       \/ EmitterOn(ev, fn)
       \/ EmitterOnce(ev, fn)
       \/ EmitterOff(ev, fn)
  \/ \E ev \in Events : Emit(ev)
  \/ Invoke
  \/ EmitReturn

InitEmitterSpec == InitQuietClient /\ InitUseFetch /\ InitQuietRest

SpecEmitter == InitEmitterSpec /\ [][NextEmitter]_vars

(* ---------------------------- properties ------------------------------- *)
\* the call has sent its retry
RetrySent(r) == isRetry[r] /\ sendCount[r] = 2
\* the call waits on a refresh that has not completed
Waiting(r) == pc[r] = "queued" /\ InFlight(joined[r])

\* C1: single-flight.  Calls that wait on a refresh at the same time wait on
\* the same execution of refreshToken (one request to the refresh endpoint),
\* each of them is retried at most once, and the retries of the calls of one
\* refresh all carry the token that refresh produced.
C1_SingleFlight ==
  \A r1, r2 \in Reqs :
    /\ (Waiting(r1) /\ Waiting(r2)) => joined[r1] = joined[r2]
    /\ sendCount[r1] <= 2
    /\ (joined[r1] # 0 /\ joined[r1] = joined[r2] /\ RetrySent(r1) /\ RetrySent(r2))
         => /\ retryHdr[r1] = retryHdr[r2]
            /\ retryHdr[r1] = Bearer(ops[joined[r1]].value)

\* C2: at most one execution of refreshToken is in flight at any time.
C2_AtMostOneRefreshInFlight ==
  Cardinality({o \in Ops : InFlight(o)}) <= 1

C4_BoundedRetry ==
  \A r \in Reqs :
    /\ sendCount[r] <= 2
    /\ sendCount[r] = 2 => isRetry[r]
    /\ isRetry[r] => pc[r] \in {"onRequest", "sent", "done"}
    /\ Len(saved[r]) <= 1
    /\ (isRetry[r] /\ pc[r] = "done") =>
         result[r] \in {<<"ok">>, <<"failure">>, <<"aborted">>}
                        \cup {<<"response", st>> : st \in Statuses}

C4_Witness ==
  \E r \in Reqs :
    /\ isRetry[r]
    /\ sendCount[r] = 2
    /\ pc[r] = "done"
    /\ result[r] = <<"response", 401>>

\* C5: a failed refresh invokes onRefreshFailCallback exactly once: never
\* more than once, and once when all the calls that waited on it have settled.
C5_FailCallbackOnce ==
  \A o \in Ops :
    /\ failCalls[o] <= 1
    /\ (ops[o].state = "rejected"
        /\ \A r \in Reqs : joined[r] = o => pc[r] = "done") => failCalls[o] = 1

\* C6: state reset.  The step that completes a refresh leaves refreshPromise
\* null and isRefreshing false, refreshPromise never designates a completed
\* refresh, and a call is never handed a refresh that had already completed
\* when the call reached queuedRefreshToken.
C6_StateReset ==
  [][/\ \A o \in Ops :
          (InFlight(o) /\ ops'[o].state \in {"resolved", "rejected"})
            => (refreshPromise' = 0 /\ ~isRefreshing')
     /\ refreshPromise' # 0 =>
          ops'[refreshPromise'].state \in {"getRT", "getExp", "net"}
     /\ \A r \in Reqs :
          (joined[r] = 0 /\ joined'[r] # 0) => ~Settled(joined'[r])
    ]_vars

C6_Witness ==
  /\ mounted
  /\ \E o1, o2 \in Ops, r \in Reqs :
       /\ o1 < o2
       /\ ops[o1].state = "resolved"
       /\ ops[o2].sentNet
       /\ joined[r] = o1
       /\ outcome[r] # <<>>

\* C7: the retry carries the token its own refresh wait resolved to, also
\* when the stored access token has been rewritten since that wait resolved.
C7_RetryCarriesOwnToken ==
  \A r \in Reqs :
    (RetrySent(r) /\ newToken[r] \in NewTokens)
      => retryHdr[r] = Bearer(newToken[r])

\* C8: on a client with one call, saveToken is called exactly once, with the
\* token T of the refresh, before the retry is sent, and the retry (same URL)
\* carries Authorization: Bearer T.
C8_SaveThenRetry ==
  \A r \in Reqs :
    /\ Len(saved[r]) <= 1
    /\ pc[r] = "saveToken" => saved[r] = <<ops[joined[r]].value>>
    /\ (isRetry[r] \/ sendCount[r] = 2) =>
         /\ ops[joined[r]].state = "resolved"
         /\ saved[r] = <<ops[joined[r]].value>>
    /\ RetrySent(r) => retryHdr[r] = Bearer(ops[joined[r]].value)

C8_Witness ==
  /\ url[1] = OrdersUrl
  /\ RetrySent(1)
  /\ saved[1] = <<"T2">>
  /\ retryHdr[1] = <<"Bearer", "T2">>

\* C9: when getRefreshToken returned null, undefined or '' for a 401, the call
\* settles with that 401 in the same step, which starts no refresh and leaves
\* refreshPromise alone; a settled call stays settled: no saveToken, no retry.
C9_NoRefreshTokenShortCircuit ==
  [][\A r \in Reqs :
       /\ (pc[r] = "hasRefreshToken" /\ acc[r] \in {NULL, UNDEF, ""}
           /\ pc'[r] # pc[r])
            => /\ pc'[r] = "done"
               /\ result'[r] = <<"response", 401>>
               /\ joined'[r] = 0
               /\ sendCount'[r] = 1
               /\ saved'[r] = <<>>
               /\ UNCHANGED <<ops, opCount, refreshPromise, isRefreshing>>
       /\ pc[r] = "done"
            => (pc'[r] = "done" /\ result'[r] = result[r] /\ joined'[r] = joined[r]
                /\ sendCount'[r] = sendCount[r] /\ saved'[r] = saved[r])
    ]_vars

C9_Witness ==
  \E r \in Reqs :
    /\ pc[r] = "done"
    /\ url[r] = OrdersUrl
    /\ acc[r] = ""
    /\ result[r] = <<"response", 401>>
    /\ sendCount[r] = 1
    /\ joined[r] = 0
    /\ opCount = 0

\* C10: expiry short-circuit.  A refresh that found no refresh token has
\* rejected with 'No refresh token available', a refresh whose expiration is
\* less than or equal to the current time (in seconds) has rejected with
\* 'Refresh token expired', and neither sent a request to the refresh endpoint.
C10_ExpiryShortCircuit ==
  \A o \in Ops :
    /\ (ops[o].state \notin {"none", "getRT"} /\ ~Truthy(ops[o].rt))
         => (ops[o].state = "rejected" /\ ops[o].error = ErrNoRefreshToken)
    /\ (ops[o].state \notin {"none", "getRT", "getExp"} /\ Truthy(ops[o].rt)
        /\ ops[o].exp # 0 /\ ops[o].exp <= ops[o].now)
         => (ops[o].state = "rejected" /\ ops[o].error = ErrExpired)
    /\ ops[o].error \in {ErrNoRefreshToken, ErrExpired} => ~ops[o].sentNet

C10_Witness ==
  \E o1, o2 \in Ops :
    /\ ops[o1].state = "rejected"
    /\ ops[o1].error = ErrExpired
    /\ ops[o1].exp = ops[o1].now
    /\ ops[o2].state = "rejected"
    /\ ops[o2].error = ErrNoRefreshToken

\* C11: a call to a URL that contains an entry of skipRefreshUrls is sent
\* once and never enters the refresh path: it does not look up the refresh
\* token, joins no refresh, saves no token, is not retried, causes no call
\* of onRefreshFailCallback, and a 401 answer is handed to the caller as
\* that 401
C11_ExemptPaths ==
  \A r \in Reqs :
    (\E skipUrl \in skipRefreshUrls : Includes(url[r], skipUrl)) =>
      /\ pc[r] \in {"idle", "onRequest", "sent", "done"}
      /\ joined[r] = 0
      /\ inFlightAtCall[r] = 0
      /\ outcome[r] = <<>>
      /\ saved[r] = <<>>
      /\ ~isRetry[r]
      /\ sendCount[r] <= 1
      /\ (pc[r] = "done" /\ status[r] = 401) => result[r] = <<"response", 401>>

\* an exempt call answered 401 while a usable refresh token is stored
C11_Witness ==
  \E r \in Reqs :
    /\ url[r] = LoginUrl
    /\ pc[r] = "done"
    /\ status[r] = 401
    /\ result[r] = <<"response", 401>>
    /\ HasRefreshToken(refreshStore)
    /\ ~IsExpired(expiryStore, CurrentTime(clock))
    /\ opCount = 0

\* C12: a call whose refresh wait ended with an error is rejected with
\* that error of the refresh (no refresh token, expired, transport error of
\* the refresh request), not with the 401 response, and was sent only once
C12_RefreshFailurePropagates ==
  \A r \in Reqs :
    (Len(outcome[r]) = 2 /\ outcome[r][1] = "error") =>
      /\ pc[r] = "done"
      /\ ops[joined[r]].error \in
           {ErrNoRefreshToken, ErrExpired, ErrRefreshTransport}
      /\ result[r] = <<"error", ops[joined[r]].error>>
      /\ sendCount[r] = 1
      /\ ~isRetry[r]

\* a call answered 401 whose refresh request failed in the transport
C12_Witness ==
  \E r \in Reqs :
    /\ status[r] = 401
    /\ outcome[r] = <<"error", ErrRefreshTransport>>
    /\ result[r] = <<"error", ErrRefreshTransport>>
    /\ ops[joined[r]].state = "rejected"

\* C13: the refresh endpoint is called at most once by an execution of
\* refreshToken; an answer or an error of that call settles the execution
\* at once, with exactly one call made and no further execution started
C13_RefreshCalledOnce ==
  [][\A o \in Ops :
       /\ ops'[o].netCalls <= 1
       /\ (ops[o].state = "net" /\ ops'[o] # ops[o]) =>
            /\ ops'[o].state \in {"resolved", "rejected"}
            /\ ops'[o].netCalls = 1
            /\ opCount' = opCount
            /\ \A q \in Ops \ {o} : ops'[q] = ops[q]]_vars

\* the refresh endpoint failed a refresh, whose waiter has been rejected
C13_Witness ==
  \E o \in Ops, r \in Reqs :
    /\ ops[o].state = "rejected"
    /\ ops[o].error = ErrRefreshTransport
    /\ ops[o].netCalls = 1
    /\ joined[r] = o
    /\ pc[r] = "done"

\* C14: every call of fetch that has been made ends, with a result: the
\* response of the first attempt or of the retry, or an error
C14_EveryCallSettles ==
  \A r \in Reqs :
    (pc[r] # "idle") ~> (pc[r] = "done" /\ result[r] # <<>>)

\* both calls have ended on a client that was unmounted; one of them had
\* waited on a refresh that failed
C14_Witness ==
  /\ ~mounted
  /\ \A r \in Reqs : pc[r] = "done" /\ result[r] # <<>>
  /\ \E r \in Reqs : joined[r] # 0 /\ ops[joined[r]].state = "rejected"

\* C15: once the reactions to a settled refresh have run, the isRefreshing
\* ref of useFetchServer is true exactly when an execution of refreshToken
\* is in flight
C15_IsRefreshingRef ==
  ~Draining => (isRefreshingRef <=> \E o \in Ops : InFlight(o))

\* C16: firing the abort signal of one call changes no execution of
\* refreshToken, neither refreshPromise nor the isRefreshing flag, and no
\* other call; no refresh ever fails with an abort, and every other waiter
\* of a resolved refresh gets its token and retries
C16_AbortLeavesRefresh ==
  /\ [](\A q \in Reqs :
          (/\ ~aborted[q]
           /\ joined[q] # 0
           /\ ops[joined[q]].state = "resolved"
           /\ pc[q] \in {"onRequest", "sent", "done"}) =>
            /\ isRetry[q]
            /\ outcome[q] = <<"token", ops[joined[q]].value>>)
  /\ [][/\ \A o \in Ops : ops'[o].error # ErrAborted
        /\ \A r \in Reqs :
             (aborted'[r] /\ ~aborted[r]) =>
               /\ ops' = ops
               /\ refreshPromise' = refreshPromise
               /\ isRefreshing' = isRefreshing
               /\ \A q \in Reqs \ {r} :
                    pc'[q] = pc[q] /\ joined'[q] = joined[q]]_vars

\* a call has been aborted while it and another call wait on the refresh
\* it started, whose request is in flight
C16_Witness ==
  \E r \in Reqs, q \in Reqs :
    /\ r # q
    /\ aborted[r] /\ ~aborted[q]
    /\ pc[r] = "queued" /\ pc[q] = "queued"
    /\ joined[q] = joined[r]
    /\ inFlightAtCall[q] = joined[r]
    /\ ops[joined[r]].state = "net"
    /\ refreshPromise = joined[r]

\* the fields of the refresh response, in the order of the extraction
TokenFields == <<"accessToken", "newAccessToken", "access_token", "token">>

\* C17 as stated: the extracted token is the value of the first field that
\* is present in the response body, in the order accessToken,
\* newAccessToken, access_token, token
C17_FirstPresentField ==
  LET present == {i \in 1..4 : refreshResponse[TokenFields[i]] # UNDEF}
  IN  (extracted # NULL /\ present # {}) =>
        \E i \in present :
          /\ \A j \in present : i <= j
          /\ extracted = refreshResponse[TokenFields[i]]

\* C17, amended: the extracted token is the value of the first field that
\* holds a non-empty value, in that order; when no field does, it is the
\* value of the last field, token
C17_FirstTruthyField ==
  LET truthy == {i \in 1..4 : Truthy(refreshResponse[TokenFields[i]])}
  IN  extracted # NULL =>
        IF truthy # {}
          THEN \E i \in truthy :
                 /\ \A j \in truthy : i <= j
                 /\ extracted = refreshResponse[TokenFields[i]]
          ELSE extracted = refreshResponse.token

\* a body whose first field is present but empty: a later field is taken
C17_Witness ==
  /\ refreshResponse.accessToken = ""
  /\ refreshResponse.newAccessToken = UNDEF
  /\ refreshResponse.access_token = "T1"
  /\ refreshResponse.token = "T2"
  /\ extracted = "T1"

\* C18: when a request is answered with an error status other than 401, or
\* fails in the transport, the call ends with that very error and nothing
\* else changes: no refresh token is looked up, no refresh is started or
\* joined, the flag, the promise and the ref stay as they were, no token is
\* saved, onRefreshFailCallback is not called and the request is not resent
C18_OtherErrorsPassThrough ==
  [][\A r \in Reqs :
       (/\ pc[r] = "sent"
        /\ pc'[r] # "sent"
        /\ status'[r] \in (Statuses \ {200, 401}) \cup {TransportFailure}) =>
         /\ pc'[r] = "done"
         /\ result'[r] = IF status'[r] = TransportFailure
                            THEN <<"failure">>
                            ELSE <<"response", status'[r]>>
         /\ acc' = acc
         /\ joined' = joined
         /\ UNCHANGED <<ops, opCount, refreshPromise, isRefreshing,
                        isRefreshingRef>>
         /\ UNCHANGED <<saved, storeVars, failCalls>>
         /\ UNCHANGED <<sendCount, isRetry, hdr>>]_vars

\* a call answered 500 and a call that failed in the transport have both
\* ended, with a usable refresh token stored and no refresh ever started
C18_Witness ==
  \E r \in Reqs, q \in Reqs :
    /\ pc[r] = "done" /\ status[r] = 500 /\ result[r] = <<"response", 500>>
    /\ pc[q] = "done" /\ status[q] = TransportFailure
    /\ result[q] = <<"failure">>
    /\ HasRefreshToken(refreshStore)
    /\ opCount = 0

\* C19 as stated: a request that goes out carries Authorization: Bearer <t>
\* when getToken returned a non-empty t for it, and no Authorization header
\* when getToken returned nothing
C19_AuthorizationHeader ==
  \A r \in Reqs :
    pc[r] = "sent" =>
      /\ sendCount[r] >= 1
      /\ hdr[r] = IF Truthy(acc[r]) THEN Bearer(acc[r]) ELSE NoHeader

\* C19, amended: as stated, except that a retry for which getToken returned
\* nothing keeps the header onResponseError gave it, Bearer <new token>
C19_AuthorizationHeaderOrRetry ==
  \A r \in Reqs :
    pc[r] = "sent" =>
      /\ sendCount[r] >= 1
      /\ hdr[r] = IF Truthy(acc[r]) THEN Bearer(acc[r])
                  ELSE IF isRetry[r] THEN Bearer(newToken[r])
                  ELSE NoHeader

\* a first attempt has gone out without a header, and a retry for which
\* getToken returned nothing has gone out with the new token
C19_Witness ==
  \E r \in Reqs, q \in Reqs :
    /\ pc[r] = "sent" /\ ~isRetry[r] /\ ~Truthy(acc[r])
    /\ hdr[r] = NoHeader
    /\ pc[q] = "sent" /\ isRetry[q] /\ ~Truthy(acc[q])
    /\ newToken[q] \in NewTokens
    /\ hdr[q] = Bearer(newToken[q])

\* C20: on a client constructed without the skipRefreshUrls option, a call
\* to a URL containing /auth/login never enters the refresh path
C20_DefaultExemptList ==
  \A r \in Reqs :
    Includes(url[r], <<"auth", "login">>) =>
      /\ pc[r] \in {"idle", "onRequest", "sent", "done"}
      /\ joined[r] = 0

(* useFetch *)
\* the calls of an instance whose transport request is in flight
InFlightCalls(i) == {q \in CallIds : calls[i][q].state = "flight"}
\* this step starts a call of fetchData on instance i
StartsCall(i) == callCount'[i] = callCount[i] + 1
\* this step is the successful end of the request of call q of instance i
Succeeds(i, q) ==
  /\ calls[i][q].state = "flight"
  /\ calls'[i][q].state = "done"
  /\ error'[i] = NULL

\* C21: the cache never holds more than MAX_CACHE_SIZE entries
C21_CacheSizeLimit == Len(cache) <= MAX_CACHE_SIZE

\* C22: when a response is written with the cache over its limit and an
\* entry is evicted, that entry is the least recently used one of the cache
\* (hit or written longest ago)
C22_EvictsLeastRecentlyUsed ==
  [][\A k \in Keys :
       (/\ \E i \in Insts, q \in CallIds : Succeeds(i, q) /\ cacheTime[i] > 0
        /\ OverLimit(Len(cache))
        /\ k \in CacheKeys(cache)
        /\ k \notin CacheKeys(cache')) =>
         k = SelectSeq(recency, LAMBDA j : j \in CacheKeys(cache))[1]]_vars

\* C23: a fetch that does not bypass the cache, on an instance with a
\* cacheTime, for a key whose entry was written less than cacheTime ago (and
\* not cleared or evicted since) is served from the cache without a
\* transport request; when cacheTime has elapsed since the write it sends
\* a transport request
C23_CacheTime ==
  [][\A i \in Insts :
       (/\ StartsCall(i)
        /\ ~calls'[i][callCount'[i]].bypass
        /\ cacheTime'[i] > 0
        /\ lastStored[cacheKey'[i]] # NoTime) =>
         IF now - lastStored[cacheKey'[i]] < cacheTime'[i]
           THEN calls'[i][callCount'[i]].state = "hit"
           ELSE calls'[i][callCount'[i]].state = "flight"]_vars

\* C24 as stated: refetch always sends a transport request, and its
\* success puts the response in data and in the entry the cache holds for
\* the key
C24_RefetchReplaces ==
  [][\A i \in Insts :
       /\ (StartsCall(i) /\ calls'[i][callCount'[i]].bypass) =>
            calls'[i][callCount'[i]].state = "flight"
       /\ \A q \in CallIds :
            (Succeeds(i, q) /\ calls[i][q].bypass) =>
              /\ data'[i] \in Responses
              /\ cacheKey[i] \in CacheKeys(cache) =>
                   /\ cacheKey[i] \in CacheKeys(cache')
                   /\ CacheGet(cache', cacheKey[i]).data = data'[i]
                   /\ CacheGet(cache', cacheKey[i]).timestamp = now]_vars

\* C24, amended: the entry is replaced when the instance has a cacheTime;
\* an instance without one replaces data only and leaves the cache as it is
C24_RefetchReplacesWithCacheTime ==
  [][\A i \in Insts :
       /\ (StartsCall(i) /\ calls'[i][callCount'[i]].bypass) =>
            calls'[i][callCount'[i]].state = "flight"
       /\ \A q \in CallIds :
            (Succeeds(i, q) /\ calls[i][q].bypass) =>
              /\ data'[i] \in Responses
              /\ IF cacheTime[i] > 0
                   THEN /\ cacheKey[i] \in CacheKeys(cache')
                        /\ CacheGet(cache', cacheKey[i]).data = data'[i]
                        /\ CacheGet(cache', cacheKey[i]).timestamp = now
                   ELSE cache' = cache]_vars

\* a refetch has its request in flight while the cache holds a fresh entry
\* with other data than the instance shows
C24_Witness ==
  \E i \in Insts, q \in CallIds :
    /\ calls[i][q].bypass
    /\ calls[i][q].state = "flight"
    /\ cacheTime[i] > 0
    /\ cacheKey[i] \in CacheKeys(cache)
    /\ IsFresh(CacheGet(cache, cacheKey[i]), cacheTime[i])
    /\ data[i] \in Responses

\* C25: an instance has at most one request in flight that has not been
\* aborted, and none once it is unmounted
C25_OneRequestInFlight ==
  \A i \in Insts :
    /\ Cardinality(InFlightCalls(i)) <= 1
    /\ (created[i] /\ ~instMounted[i]) => InFlightCalls(i) = {}

\* C26: once the continuations that are ready have run, loading is true
\* exactly when the instance has a request in flight
C26_Loading ==
  ~Resuming => \A i \in Insts : loading[i] <=> InFlightCalls(i) # {}

(* ---------------------------- useCountdown ----------------------------- *)
\* everything outside useCountdown
outsideCountdown == <<clientVars, skipRefreshUrls, refreshResponse, extracted,
                      fetchVars, emitterVars, sseVars, twVars>>

\* the state of the countdown, and the step to state s
CurCountdown ==
  [remaining |-> remaining, cdTimer |-> cdTimer, onExpiredFn |-> onExpiredFn,
   onSuccessFn |-> onSuccessFn, expiredCalls |-> expiredCalls,
   successCalls |-> successCalls]
CountdownSet(s) ==
  /\ remaining' = s.remaining
  /\ cdTimer' = s.cdTimer
  /\ onExpiredFn' = s.onExpiredFn
  /\ onSuccessFn' = s.onSuccessFn
  /\ expiredCalls' = s.expiredCalls
  /\ successCalls' = s.successCalls
  /\ UNCHANGED <<cdOptions, outsideCountdown>>

\* a second has passed and the interval calls update
IntervalFired ==
  /\ cdTimer
  /\ cdNow < MaxCdNow
  /\ cdNow' = cdNow + 1
  /\ CountdownSet(update(CurCountdown, cdOptions.expiredUnix, cdNow + 1))

\* the caller sets a handler: countdown.onExpired(fn), countdown.onSuccess(fn)
OnExpiredHandler ==
  /\ ~onExpiredFn
  /\ CountdownSet([CurCountdown EXCEPT !.onExpiredFn = TRUE])
  /\ UNCHANGED cdNow
OnSuccessHandler ==
  /\ ~onSuccessFn
  /\ CountdownSet([CurCountdown EXCEPT !.onSuccessFn = TRUE])
  /\ UNCHANGED cdNow

\* triggerSuccess: handleSuccess
handleSuccess(s) ==
  [s EXCEPT !.cdTimer = FALSE,
            !.successCalls = IF s.onSuccessFn THEN @ + 1 ELSE @]
TriggerSuccess ==
  /\ successCalls < MaxSuccess
  /\ CountdownSet(handleSuccess(CurCountdown))
  /\ UNCHANGED cdNow

\* onUnmounted: clearInterval(timer)
CountdownUnmounted ==
  /\ cdTimer
  /\ CountdownSet([CurCountdown EXCEPT !.cdTimer = FALSE])
  /\ UNCHANGED cdNow

NextCountdown ==
  \/ IntervalFired
  \/ OnExpiredHandler
  \/ OnSuccessHandler
  \/ TriggerSuccess
  \/ CountdownUnmounted

InitCountdownSpec ==
  /\ InitQuietClient
  /\ InitUseFetch
  /\ InitEmitter
  /\ InitSSERefs(DefaultSSEOptions)
  /\ \E options \in CountdownOptions : InitCountdown(options)
  /\ InitQuietTypewriter

SpecCountdown == InitCountdownSpec /\ [][NextCountdown]_vars

(* ---------------------------- useTypewriter ---------------------------- *)
\* everything outside useTypewriter
outsideTypewriter == <<clientVars, skipRefreshUrls, refreshResponse, extracted,
                       fetchVars, emitterVars, sseVars, cdVars>>

\* the state of the instance, and the step to state s
CurTypewriter ==
  [textArray |-> textArray, displayText |-> displayText,
   currentIndex |-> currentIndex, isTyping |-> isTyping,
   isDeleting |-> isDeleting, isPaused |-> isPaused,
   currentCharIndex |-> currentCharIndex, timeoutId |-> timeoutId,
   twTimers |-> twTimers, completeCalls |-> completeCalls]
TypewriterSet(s) ==
  /\ textArray' = s.textArray
  /\ displayText' = s.displayText
  /\ currentIndex' = s.currentIndex
  /\ isTyping' = s.isTyping
  /\ isDeleting' = s.isDeleting
  /\ isPaused' = s.isPaused
  /\ currentCharIndex' = s.currentCharIndex
  /\ timeoutId' = s.timeoutId
  /\ twTimers' = s.twTimers
  /\ completeCalls' = s.completeCalls
  /\ UNCHANGED <<twOptions, outsideTypewriter>>

\* timeoutId = setTimeout(...): a new id, which no pending timeout has and
\* which is not the one timeoutId holds
TimeoutIds == 1..(2 * MaxTwTimers + 2)
NewTimeout(s) ==
  CHOOSE id \in TimeoutIds :
    /\ id # s.timeoutId
    /\ \A t \in s.twTimers : t.id # id
    /\ \A other \in TimeoutIds :
         (other # s.timeoutId /\ \A t \in s.twTimers : t.id # other)
           => id <= other
twSetTimeout(s, kind) ==
  [s EXCEPT !.twTimers = @ \cup {[id |-> NewTimeout(s), kind |-> kind]},
            !.timeoutId = NewTimeout(s)]
\* if (timeoutId) clearTimeout(timeoutId)
twClearTimeout(s) ==
  [s EXCEPT !.twTimers = {t \in @ : t.id # s.timeoutId}]

\* type(), where completed is the state the onTypeComplete callback leaves
\* when it is called for the state s
typeThen(s, completed) ==
  IF s.isPaused \/ Len(s.textArray) = 0 THEN s
  ELSE
    LET currentText == s.textArray[s.currentIndex + 1] IN
    IF ~s.isDeleting
    THEN IF s.currentCharIndex < Len(currentText)
         THEN twSetTimeout(
                [s EXCEPT !.displayText =
                            SubSeq(currentText, 1, s.currentCharIndex + 1),
                          !.currentCharIndex = @ + 1],
                "type")
         ELSE twSetTimeout(completed, "delete")
    ELSE IF s.currentCharIndex > 0
         THEN twSetTimeout(
                [s EXCEPT !.currentCharIndex = @ - 1,
                          !.displayText =
                            SubSeq(currentText, 1, s.currentCharIndex - 1)],
                "type")
         ELSE LET s1 == [s EXCEPT !.isDeleting = FALSE, !.completeCalls = 0]
                  nextIndex == s.currentIndex + 1
              IN  IF nextIndex >= Len(s.textArray)
                  THEN IF twOptions.loop
                       THEN twSetTimeout([s1 EXCEPT !.currentIndex = 0], "type")
                       ELSE [s1 EXCEPT !.isTyping = FALSE]
                  ELSE twSetTimeout([s1 EXCEPT !.currentIndex = nextIndex],
                                    "type")

\* stop()
twStop(s) ==
  [twClearTimeout(s) EXCEPT
     !.isTyping = FALSE, !.isPaused = FALSE, !.isDeleting = FALSE,
     !.currentCharIndex = 0, !.displayText = <<>>, !.timeoutId = 0,
     !.completeCalls = 0]

\* pause()
twPause(s) ==
  IF s.isTyping /\ ~s.isPaused
  THEN [twClearTimeout(s) EXCEPT !.isPaused = TRUE, !.timeoutId = 0]
  ELSE s

\* next() and prev() up to the call of type(): the index moves, the text is
\* reset and the timeout cleared
skipTo(s, index) ==
  [twClearTimeout(s) EXCEPT
     !.currentIndex = index, !.currentCharIndex = 0,
     !.displayText = <<>>, !.isDeleting = FALSE, !.completeCalls = 0]
NextIndex(s) == (s.currentIndex + 1) % Len(s.textArray)
PrevIndex(s) ==
  IF s.currentIndex = 0 THEN Len(s.textArray) - 1 ELSE s.currentIndex - 1

\* onTypeComplete is called: one more invocation for the text typed
Called(s) == [s EXCEPT !.completeCalls = @ + 1]

\* type() as it runs when next() is called from the callback: no character
\* of the text is typed yet, so that the callback is not reached again
typeFirst(s) == typeThen(s, Called(s))

\* next() called from the callback
twNextFirst(s) ==
  IF Len(s.textArray) = 0 THEN s
  ELSE IF s.isTyping /\ ~s.isPaused
       THEN typeFirst(skipTo(s, NextIndex(s)))
       ELSE skipTo(s, NextIndex(s))

\* the onTypeComplete callback of the options
OnTypeComplete(s) ==
  CASE twOptions.onTypeComplete = "none" -> s
    [] twOptions.onTypeComplete = "pause" -> twPause(s)
    [] twOptions.onTypeComplete = "stop" -> twStop(s)
    [] twOptions.onTypeComplete = "next" -> twNextFirst(s)

type(s) == typeThen(s, OnTypeComplete(Called(s)))

\* next()
twNext(s) ==
  IF Len(s.textArray) = 0 THEN s
  ELSE IF s.isTyping /\ ~s.isPaused
       THEN type(skipTo(s, NextIndex(s)))
       ELSE skipTo(s, NextIndex(s))

\* prev()
twPrev(s) ==
  IF Len(s.textArray) = 0 THEN s
  ELSE IF s.isTyping /\ ~s.isPaused
       THEN type(skipTo(s, PrevIndex(s)))
       ELSE skipTo(s, PrevIndex(s))

\* start()
twStart(s) ==
  type([twStop(s) EXCEPT !.isTyping = TRUE, !.isPaused = FALSE,
                         !.currentIndex = 0])

\* resume()
twResume(s) ==
  IF s.isPaused THEN type([s EXCEPT !.isPaused = FALSE]) ELSE s

\* updateTexts(newTexts)
updateTexts(s, newTexts) ==
  LET s1 == [twStop(s) EXCEPT !.textArray = newTexts, !.currentIndex = 0]
  IN  IF s.isTyping THEN twStart(s1) ELSE s1

\* the instance is driven on
TwBounded ==
  /\ Cardinality(twTimers) < MaxTwTimers
  /\ completeCalls < MaxCompleteCalls

\* the caller calls start(), pause(), resume(), stop(), next(), prev(),
\* updateTexts(newTexts); onUnmounted calls stop()
TwStart == TwBounded /\ TypewriterSet(twStart(CurTypewriter))
TwPause == TwBounded /\ TypewriterSet(twPause(CurTypewriter))
TwResume == TwBounded /\ TypewriterSet(twResume(CurTypewriter))
TwStop == TwBounded /\ TypewriterSet(twStop(CurTypewriter))
TwNext == TwBounded /\ TypewriterSet(twNext(CurTypewriter))
TwPrev == TwBounded /\ TypewriterSet(twPrev(CurTypewriter))
TwUpdateTexts(newTexts) ==
  /\ TwBounded
  /\ TypewriterSet(updateTexts(CurTypewriter, newTexts))

\* a timeout fires: type(), or, after the delay before deleting,
\* isDeleting = true and type()
TimeoutFired(t) ==
  /\ TwBounded
  /\ t \in twTimers
  /\ LET s == [CurTypewriter EXCEPT !.twTimers = @ \ {t}]
     IN  IF t.kind = "type"
         THEN TypewriterSet(type(s))
         ELSE TypewriterSet(type([s EXCEPT !.isDeleting = TRUE]))

NextTypewriter ==
  \/ TwStart
  \/ TwPause
  \/ TwResume
  \/ TwStop
  \/ TwNext
  \/ TwPrev
  \/ \E newTexts \in TextArrays : TwUpdateTexts(newTexts)
  \/ \E t \in twTimers : TimeoutFired(t)

\* useTypewriter(texts, options): autoStart calls start()
InitTypewriter ==
  \E options \in TypewriterOptions, texts \in TextArrays :
    /\ twOptions = options
    /\ TypewriterIs(IF options.autoStart /\ Len(texts) > 0
                      THEN twStart(FreshTypewriter(texts))
                      ELSE FreshTypewriter(texts))

InitTypewriterSpec ==
  /\ InitQuietClient
  /\ InitUseFetch
  /\ InitEmitter
  /\ InitSSERefs(DefaultSSEOptions)
  /\ InitCountdown(QuietCountdownOptions)
  /\ InitTypewriter

SpecTypewriter == InitTypewriterSpec /\ [][NextTypewriter]_vars

(* ------------------------------ useSSE -------------------------------- *)
\* everything outside useSSE
outsideSSE == <<clientVars, skipRefreshUrls, refreshResponse, extracted,
                fetchVars, emitterVars, cdVars, twVars>>

\* the state of the instance, and the step to state s
CurSSE ==
  [source |-> source, reconnectTimer |-> reconnectTimer,
   currentReconnectDelay |-> currentReconnectDelay,
   isManuallyClosed |-> isManuallyClosed, isConnected |-> isConnected,
   retryCount |-> retryCount, sseError |-> sseError, esCreated |-> esCreated,
   stopped |-> stopped, sourceAuto |-> sourceAuto, autoFailed |-> autoFailed,
   timerDelay |-> timerDelay, orphans |-> orphans]
SSESet(s) ==
  /\ source' = s.source
  /\ reconnectTimer' = s.reconnectTimer
  /\ currentReconnectDelay' = s.currentReconnectDelay
  /\ isManuallyClosed' = s.isManuallyClosed
  /\ isConnected' = s.isConnected
  /\ retryCount' = s.retryCount
  /\ sseError' = s.sseError
  /\ esCreated' = s.esCreated
  /\ stopped' = s.stopped
  /\ sourceAuto' = s.sourceAuto
  /\ autoFailed' = s.autoFailed
  /\ timerDelay' = s.timerDelay
  /\ orphans' = s.orphans
  /\ UNCHANGED <<sseOptions, outsideSSE>>

\* if (reconnectTimer) { clearTimeout(reconnectTimer); reconnectTimer = null }
clearReconnectTimer(s) == [s EXCEPT !.reconnectTimer = "null"]

\* the early return of scheduleReconnect
SkipsReconnectIgnoringManual(autoReconnect, manual, rc, maxRetries) ==
  ~autoReconnect \/ rc >= maxRetries
SkipsReconnectUnbounded(autoReconnect, manual, rc, maxRetries) ==
  ~autoReconnect \/ manual
SkipsReconnect(autoReconnect, manual, rc, maxRetries) ==
  ~autoReconnect \/ manual \/ rc >= maxRetries

scheduleReconnect(s) ==
  IF SkipsReconnect(sseOptions.autoReconnect, s.isManuallyClosed,
                    s.retryCount, sseOptions.maxRetries)
  THEN s
  ELSE [clearReconnectTimer(s) EXCEPT !.reconnectTimer = "pending",
                                      !.timerDelay = s.currentReconnectDelay]

\* start(): nothing with an active source; else a new EventSource. byTimer:
\* the call is the one of the reconnect timeout
IsActiveNever(readyState) == FALSE
IsActive(readyState) == readyState \in {"connecting", "open"}
\* if (source) { source.close(); source = null }
closeSource(s) == [s EXCEPT !.source = "null"]
\* source = new EventSource(url): a source that was still connecting or open
\* is left behind, open
newEventSource(s, byTimer) ==
  [s EXCEPT !.source = "connecting", !.esCreated = @ + 1,
            !.sourceAuto = byTimer,
            !.orphans = IF s.source \in {"connecting", "open"}
                        THEN @ + 1 ELSE @]
start(s, byTimer) ==
  IF IsActive(s.source) THEN s
  ELSE newEventSource([closeSource(s) EXCEPT !.isManuallyClosed = FALSE,
                                             !.sseError = FALSE],
                      byTimer)

\* stop()
stop(s) ==
  [clearReconnectTimer(closeSource(s)) EXCEPT
     !.isManuallyClosed = TRUE,
     !.isConnected = IF s.source = "null" THEN @ ELSE FALSE,
     !.retryCount = 0,
     !.currentReconnectDelay = sseOptions.reconnectDelay,
     !.stopped = TRUE, !.autoFailed = 0]

\* the caller calls start(), stop(), reset()
CallerStart(s) == [start(s, FALSE) EXCEPT !.stopped = FALSE]
SSEStart ==
  /\ esCreated < MaxSources
  /\ SSESet(CallerStart(CurSSE))
\* stop() by the caller, or by onBeforeUnmount
SSEStop == SSESet(stop(CurSSE))
SSEReset == SSESet([stop(CurSSE) EXCEPT !.sseError = FALSE])

\* source.onopen
SourceOpened ==
  /\ source = "connecting"
  /\ SSESet([CurSSE EXCEPT !.source = "open", !.isConnected = TRUE,
                           !.retryCount = 0,
                           !.currentReconnectDelay = sseOptions.reconnectDelay,
                           !.sseError = FALSE, !.autoFailed = 0])

\* the onError callback of the options: it does nothing, or calls stop()
\* or start()
OnErrorCallback(s) ==
  CASE sseOptions.onError = "none" -> s
    [] sseOptions.onError = "stop" -> stop(s)
    [] sseOptions.onError = "start" -> CallerStart(s)

\* source.onerror; the browser has left the source connecting again, or
\* closed
SourceErrored(closed) ==
  /\ IsActive(source)
  /\ esCreated < MaxSources
  /\ LET s1 == [CurSSE EXCEPT
                  !.sseError = TRUE, !.isConnected = FALSE,
                  !.source = IF closed THEN "closed" ELSE "connecting",
                  !.autoFailed = IF sourceAuto /\ source = "connecting"
                                 THEN @ + 1 ELSE @]
         s2 == OnErrorCallback(s1)
         s3 == closeSource(s2)
     IN SSESet(scheduleReconnect(s3))

\* the reconnect timeout fires
Min(a, b) == IF a < b THEN a ELSE b
ReconnectFired ==
  /\ reconnectTimer = "pending"
  /\ esCreated < MaxSources
  /\ SSESet(start([CurSSE EXCEPT
                     !.reconnectTimer = "fired",
                     !.retryCount = @ + 1,
                     !.currentReconnectDelay =
                        Min(@ * 2, sseOptions.maxReconnectDelay)],
                  TRUE))

NextSSE ==
  \/ SSEStart
  \/ SSEStop
  \/ SSEReset
  \/ SourceOpened
  \/ \E closed \in BOOLEAN : SourceErrored(closed)
  \/ ReconnectFired

\* useSSE(url, options): autoStart calls start()
InitUseSSE ==
  \E options \in SSEOptions :
    /\ sseOptions = options
    /\ SSEIs(IF options.autoStart THEN start(FreshSSE(options), FALSE)
             ELSE FreshSSE(options))

InitSSESpec ==
  /\ InitQuietClient
  /\ InitUseFetch
  /\ InitEmitter
  /\ InitUseSSE
  /\ InitCountdown(QuietCountdownOptions)
  /\ InitQuietTypewriter

SpecSSE == InitSSESpec /\ [][NextSSE]_vars

(* ------------------------- Emitter properties -------------------------- *)
\* the loop of an emit calls a listener in this step
CalledNow ==
  /\ stack # <<>>
  /\ Len(stack') = Len(stack)
  /\ stack'[Len(stack)].called = Top.called + 1

\* C27: a listener registered with once(event, fn) is invoked at most once
\* over any sequence of emits of the event, emits issued from inside another
\* listener of the same event included: the function of no once wrapper is
\* called a second time.
C27_OnceAtMostOnce == \A id \in WrapperIds : onceCalls[id] <= 1

\* off(ev, fn) leaves the listeners of other functions and of other events
\* as they were, and changes nothing for an unknown event or a function
\* that is not registered
OffFrame(ev, fn) ==
  /\ \A other \in Events \ {ev} : events'[other] = events[other]
  /\ events'[ev].fns = SelectSeq(events[ev].fns, LAMBDA c : c # Plain(fn))
  /\ (\A j \in 1..Len(events[ev].fns) : events[ev].fns[j] # Plain(fn))
       => events' = events

\* C28: after off(event, fn), fn is not invoked by any later emit of that
\* event, however many times it had been registered with on; listeners of
\* other functions and of other events are unchanged, and off for an unknown
\* event or an unregistered function changes nothing.
C28_Off ==
  [][/\ CalledNow => Head(Top.rest).fn \notin Top.barred
     /\ \A ev \in Events, fn \in Fns : EmitterOff(ev, fn) => OffFrame(ev, fn)]_vars

\* off and the registrations made with on: a later emit calls no listener
\* that is fn itself, and the frame of off holds
OffRemovesOnRegistrations ==
  [][/\ CalledNow => Plain(Head(Top.rest).fn) # Head(Top.rest)
                      \/ Head(Top.rest).fn \notin Top.barred
     /\ \A ev \in Events, fn \in Fns : EmitterOff(ev, fn) => OffFrame(ev, fn)]_vars


\* C36: onRefreshFailCallback is never invoked on a path where no refresh
\* was attempted or where the failure came after the refresh: it is invoked
\* only by a call that got a 401 on its first attempt, for a URL that is
\* not exempt, with a refresh token, and whose refresh was rejected.
C36_FailCallbackOnlyForRefresh ==
  [][\A o \in Ops :
       failCalls'[o] # failCalls[o] =>
         \E r \in Reqs :
           /\ joined[r] = o
           /\ pc[r] = "refreshed"
           /\ ops[o].state = "rejected"
           /\ status[r] = 401
           /\ ~isRetry[r]
           /\ ~ShouldSkipRefresh(url[r])
           /\ HasRefreshToken(acc[r])]_vars

\* C37: in every reachable state of a FetchManager instance the isRefreshing
\* flag is true if and only if refreshPromise is non-null, also after the
\* refresh has settled and after the unmount cleanup has reset the state.
C37_FlagIffPromise == isRefreshing <=> refreshPromise # 0

\* a refresh has settled, another one was started after the unmount cleanup
\* and is running
C37_Witness ==
  /\ ~mounted
  /\ isRefreshing
  /\ \E o \in Ops : Settled(o)
  /\ \E o \in Ops : InFlight(o)

\* a body in which no token field holds a token: absent or empty values only
NoToken(response) ==
  /\ ~Truthy(response.accessToken)
  /\ ~Truthy(response.newAccessToken)
  /\ ~Truthy(response.access_token)
  /\ ~Truthy(response.token)

\* the refresh endpoint answers with a body without a token: the refresh
\* resolves, with the value of the last field tried
ResolvesWithoutToken ==
  \A o \in Ops, response \in RefreshBodies :
    (RefreshResponse(o, response) /\ NoToken(response)) =>
      /\ ops'[o].state = "resolved"
      /\ ops'[o].value = response.token

\* a call resumes from a refresh that resolved without a token: saveToken
\* gets the value v, the retry (the first one of the call) is on its way
\* and onRefreshFailCallback is not invoked
ContinuesWithoutToken(r, v) ==
  /\ ops[joined[r]].value = v
  /\ saved'[r] = Append(saved[r], v)
  /\ pc'[r] = "saveToken"
  /\ ~isRetry[r]
  /\ failCalls' = failCalls

\* the retry of a call made without a token is sent once
RetriedOnce ==
  \A r \in Reqs : (isRetry[r] /\ ~Truthy(newToken[r])) => sendCount[r] <= 2

\* C38 as stated: if the refresh endpoint responds successfully with a body
\* that holds none of accessToken, newAccessToken, access_token, token (or
\* only empty values), the refresh resolves instead of rejecting, saveToken
\* is called with the undefined value, the original request is retried once
\* and onRefreshFailCallback is not invoked
C38_NoTokenSavesUndefined ==
  [][/\ ResolvesWithoutToken
     /\ RetriedOnce'
     /\ \A r \in Reqs :
          (Refreshed(r) /\ ops[joined[r]].state = "resolved"
             /\ ~Truthy(ops[joined[r]].value)) =>
            ContinuesWithoutToken(r, UNDEF)]_vars

\* C38, amended: the same, where saveToken is called with the value of the
\* token field of the body: undefined when the field is absent, the empty
\* string when it is empty
C38_NoTokenSavesLastField ==
  [][/\ ResolvesWithoutToken
     /\ RetriedOnce'
     /\ \A r \in Reqs :
          (Refreshed(r) /\ ops[joined[r]].state = "resolved"
             /\ ~Truthy(ops[joined[r]].value)) =>
            \E v \in {UNDEF, ""} : ContinuesWithoutToken(r, v)]_vars

\* a call was retried after saveToken got the empty string, and has ended
C38_Witness ==
  \E r \in Reqs : isRetry[r] /\ saved[r] = <<"">> /\ pc[r] = "done"

\* the timeout t fires and takes an entry out of the cache
ExpiresEntry(t) == TimerFired(t) /\ t.key \in CacheKeys(cache)

\* C35: an entry written to the cache at time t stays available until
\* t + cacheTime unless clearCache or an eviction removes it; a rewrite
\* restarts its lifetime: when a timeout removes an entry, the timeout set
\* by the last write of the entry is due as well, so that cacheTime has
\* passed since that write.
C35_EntryLifetime ==
  [][\A t \in timers :
       ExpiresEntry(t) =>
         \A u \in timers : u.id = cacheTimers[t.key] => u.due <= now]_vars

(* -------------------------- useSSE properties -------------------------- *)
\* C29: after stop() is called on a useSSE instance, no new EventSource is
\* created until start() is called again: no reconnect timeout is pending
\* and none is scheduled.
C29_NoReconnectAfterStop ==
  [][/\ stopped' => reconnectTimer' # "pending"
     /\ (stopped /\ stopped') => esCreated' = esCreated]_vars

\* stop() was called after an error of a source, with reconnects left
C29_Witness ==
  /\ stopped
  /\ sseError
  /\ esCreated >= 2
  /\ sseOptions.autoReconnect
  /\ sseOptions.maxRetries > 0

\* C30: retryCount never exceeds maxRetries, and after maxRetries failed
\* automatic reconnects in a row a further error creates no new
\* EventSource: no reconnect timeout is pending then.
C30_MaxRetries ==
  /\ retryCount <= sseOptions.maxRetries
  /\ autoFailed >= sseOptions.maxRetries => reconnectTimer # "pending"

\* the last of maxRetries reconnects has failed
C30_Witness ==
  /\ sseOptions.autoReconnect
  /\ sseOptions.maxRetries = MaxRetriesBound
  /\ autoFailed = MaxRetriesBound
  /\ retryCount = MaxRetriesBound
  /\ sseError
  /\ source = "null"


\* 2^n
RECURSIVE Pow2(_)
Pow2(n) == IF n = 0 THEN 1 ELSE 2 * Pow2(n - 1)
\* the delay the k-th reconnect in a row should wait
Backoff(k) == Min(sseOptions.reconnectDelay * Pow2(k - 1),
                  sseOptions.maxReconnectDelay)
\* an error handler sets the reconnect timeout in this step: retryCount
\* reconnects have been made before it
SchedulesReconnect ==
  /\ \E closed \in BOOLEAN : SourceErrored(closed)
  /\ reconnectTimer' = "pending"
\* onopen and stop() put the delay and retryCount back
ResetsBackoff ==
  (SourceOpened \/ SSEStop) =>
     /\ currentReconnectDelay' = sseOptions.reconnectDelay
     /\ retryCount' = 0

\* C31: the delay before the k-th consecutive automatic reconnect is
\* min(reconnectDelay * 2^(k-1), maxReconnectDelay); a successful open or a
\* stop() resets the delay to reconnectDelay and retryCount to 0.
C31_Backoff ==
  [][/\ SchedulesReconnect => timerDelay' = Backoff(retryCount' + 1)
     /\ ResetsBackoff]_vars

\* the same for options with reconnectDelay <= maxReconnectDelay
BackoffWithinCap ==
  [][/\ (SchedulesReconnect
         /\ sseOptions.reconnectDelay <= sseOptions.maxReconnectDelay)
          => timerDelay' = Backoff(retryCount' + 1)
     /\ ResetsBackoff]_vars


\* the EventSources of the instance that are connecting or open
ActiveSources == orphans + (IF source \in {"connecting", "open"} THEN 1 ELSE 0)

ExpiresOnce ==
  cdOptions.onExpired =>
    /\ remaining' = 0 => expiredCalls' = 1
    /\ remaining = 0 =>
         /\ remaining' = 0
         /\ expiredCalls' = expiredCalls
         /\ ~cdTimer'

\* C33: for every expiredUnix, in the future or already in the past when
\* useCountdown is called, the onExpired handler is invoked exactly once
\* when remaining reaches 0, and afterwards the timer is stopped: remaining
\* stays 0 and the handler is never invoked again.
C33_ExpiredOnce == [][ExpiresOnce]_vars

\* the same for an expiredUnix that is in the future when useCountdown is
\* called
ExpiresOnceInFuture ==
  [][cdOptions.expiredUnix > CallTime => ExpiresOnce]_vars


(* ---------------------- useTypewriter properties ----------------------- *)
\* C34: onTypeComplete(text, index) is invoked exactly once each time a text
\* has been fully typed, under any interleaving of pause(), resume(),
\* next() and prev() with the typing timers: never a second time for the
\* text on display, and once by the time its deletion begins.
C34_TypeCompleteOnce ==
  /\ completeCalls <= 1
  /\ (twOptions.onTypeComplete = "none" /\ isDeleting) => completeCalls = 1

\* C39: at most one typing/deleting timeout is pending at any time for a
\* useTypewriter instance, after any sequence of start, pause, resume, stop,
\* next, prev and updateTexts; no such timeout is pending while isPaused is
\* true or after stop().
C39_OneTimeout ==
  /\ Cardinality(twTimers) <= 1
  /\ isPaused => twTimers = {}
  /\ ~isTyping => twTimers = {}

\* the same for an instance whose onTypeComplete calls nothing
OneTimeoutWithoutCallback ==
  twOptions.onTypeComplete = "none" => C39_OneTimeout

====
